---- MODULE Spec2Model ----
(***************************************************************************)
(* Toloka2MediaServer: the qBittorrent client's background recheck         *)
(* supervisor (clients/qbittorrent.py), its verified client operations and *)
(* the add/update workflows (utils/torrent_processor.py).                  *)
(*                                                                         *)
(* The specifications share the variables:                                 *)
(*   SpecBg     recheck_and_resume_async, the pool's tasks, cancel and     *)
(*              shutdown, interleaved at the granularity of one remote     *)
(*              request or one acquisition of _tasks_lock per step;        *)
(*   SpecBgFair the same with weak fairness on the threads' steps;         *)
(*   SpecClient delete_torrent and add_torrent against the remote client;  *)
(*   SpecOrch   update()/add() against a client whose operations answer    *)
(*              nondeterministically;                                      *)
(*   SpecNaming the renaming part of process_torrent over concrete names;  *)
(*   SpecRetry  _retry_operation running rename_file, rename_folder or     *)
(*              resume_torrent.                                            *)
(***************************************************************************)
EXTENDS Integers, Sequences, FiniteSets, TLC

(***************************************************************************)
(* Bounds of the model.                                                    *)
(***************************************************************************)
MaxPolls == 2        \* polls of one monitoring loop before the ceiling elapses
MaxQuickPolls == 2   \* polls of the quick-start wait before its ceiling elapses
MaxDeletes == 2      \* delete_torrent calls in one run
MaxFiles == 2        \* files of a torrent
MaxAdds == 2         \* add_torrent calls in one run

Hashes == {"h1"}
Callers == {"c1", "c2"}   \* threads, each calling recheck_and_resume_async once
TaskIds == 1..Cardinality(Callers)   \* a call submits at most one work item

(***************************************************************************)
(* TorrentState: the status strings and the four class sets.               *)
(***************************************************************************)
active_states ==
    {"downloading", "uploading", "stalledDL", "stalledUP", "forcedDL", "forcedUP",
     "metaDL", "allocating", "queuedDL", "queuedUP", "checkingDL", "checkingUP"}

checking_states == {"checkingUP", "checkingDL", "checkingResumeData"}

error_states == {"error", "missingFiles", "unknown"}

stopped_states == {"stoppedDL", "stoppedUP", "pausedDL", "pausedUP"}

\* What the remote client reports for a torrent: one representative status of
\* each combination of classes the code tells apart, "moving" being a status
\* qBittorrent reports that TorrentState does not list, or the torrent is absent.
Absent == "absent"
Statuses == {"checkingUP", "checkingResumeData", "stalledUP", "pausedUP", "error", "moving"}
RemoteStates == Statuses \cup {Absent}

(***************************************************************************)
(* BackgroundTaskConfig / _background_resume_and_verify constants.         *)
(***************************************************************************)
max_workers == 4
max_attempts_bg == 5

VARIABLES
    remote,        \* remote client: hash -> status or Absent
    active_tasks,  \* self._active_tasks: hash -> cancellation event (named by
                   \* the call that created it)
    events_set,    \* the threading.Event objects that are set
    calls,         \* caller thread -> frame of recheck_and_resume_async
    tasks,         \* work items submitted to self._executor, in submission order
    executor_down, \* ThreadPoolExecutor._shutdown
    shut,          \* frame of shutdown()
    pending_delete,\* remote client: hashes whose removal it has accepted, not done
    delete_log,    \* remote client: the delete requests it has received
    del,           \* frame of delete_torrent
    ndeletes,      \* delete_torrent calls started so far
    ad,            \* frame of add_torrent
    nadds,         \* add_torrent calls started so far
    orch,          \* one run of update() or add(): its frame, its inputs, the
                   \* Title, the OperationResult and what it has asked of the
                   \* client and of the ConfigStore
    nm,            \* the renaming part of process_torrent over concrete names
    rt             \* one client operation run by _retry_operation, and the
                   \* remote file list and torrent status it works on

bgVars == <<active_tasks, events_set, calls, tasks, executor_down, shut>>
clVars == <<pending_delete, delete_log, del, ndeletes, ad, nadds>>

\* What the steps of the background supervisor leave alone.
nonBg == <<remote, clVars, orch, nm, rt>>

vars == <<remote, bgVars, clVars, orch, nm, rt>>

(***************************************************************************)
(* Frames.                                                                 *)
(***************************************************************************)
NoResult == <<FALSE, "none">>

IdleCall ==
    [pc |-> "idle", hash |-> "h1", result |-> NoResult, ev |-> "none",
     rechecks |-> 0, submits |-> 0, instant |-> FALSE]

NewTask(h, ev, cb) ==
    [hash |-> h, ev |-> ev, cb |-> cb, pc |-> "queued", polls |-> 0,
     stall_warned |-> FALSE,
     completed |-> FALSE, attempt |-> 0, resumes |-> 0, cbCount |-> 0,
     cbRaised |-> FALSE, report |-> NoResult, flagBeforeResume |-> FALSE]

\* A work item that has run: its frame is gone.
DoneTask(t) == [NewTask(t.hash, t.ev, FALSE) EXCEPT !.pc = "done"]

IdleShut == [pc |-> "idle", wait |-> FALSE]

IdleDel ==
    [pc |-> "idle", hash |-> "h1", delete_files |-> FALSE, result |-> "none",
     sawAbsent |-> FALSE, requests |-> 0]

IdleAdd ==
    [pc |-> "idle", hash |-> "h1", result |-> "none", sawPresent |-> FALSE,
     requests |-> 0, conflict |-> FALSE, visible |-> "unread"]

InitClient ==
    /\ pending_delete = {}
    /\ delete_log = <<>>
    /\ del = IdleDel
    /\ ndeletes = 0
    /\ ad = IdleAdd
    /\ nadds = 0

InitBgOnly ==
    /\ active_tasks = <<>>
    /\ events_set = {}
    /\ calls = [c \in Callers |-> IdleCall]
    /\ tasks = <<>>
    /\ executor_down = FALSE
    /\ shut = IdleShut

NoOrch == [pc |-> "none"]

NoNaming == [pc |-> "none"]

NoRetry == [pc |-> "none"]

\* the parts of the state a specification does not use
Unused(o, n, r) ==
    /\ o => orch = NoOrch
    /\ n => nm = NoNaming
    /\ r => rt = NoRetry

InitBg ==
    /\ remote = [h \in Hashes |-> "pausedUP"]
    /\ InitBgOnly
    /\ InitClient
    /\ Unused(TRUE, TRUE, TRUE)

Registered(h) == h \in DOMAIN active_tasks

\* dict[key] = value
DictSet(d, k, v) == [x \in DOMAIN d \cup {k} |-> IF x = k THEN v ELSE d[x]]

\* dict.pop(key, None)
DictPop(d, k) == [x \in DOMAIN d \ {k} |-> d[x]]

LiveTask(i) == tasks[i].pc # "done"
LiveTasksOf(h) == {i \in DOMAIN tasks : tasks[i].hash = h /\ LiveTask(i)}
Running == {i \in DOMAIN tasks : tasks[i].pc \notin {"queued", "done"}}

(***************************************************************************)
(* The remote client is another process: between two queries of a thread   *)
(* it may have moved the torrent to any status or lost it. In SpecBg and   *)
(* SpecBgFair a query (_get_torrent) therefore answers any of RemoteStates,*)
(* or raises (a transport error): an observation.                          *)
(***************************************************************************)
Raise == "raise"
Observations == RemoteStates \cup {Raise}

(***************************************************************************)
(* recheck_and_resume_async, one step per lock section and per remote      *)
(* request (the polls of the quick-start wait, which touch nothing shared, *)
(* are one step).                                                          *)
(***************************************************************************)
Return(c, res) ==
    [calls EXCEPT ![c].pc = "done", ![c].result = res, ![c].instant = FALSE]

Raised == <<FALSE, "raised">>

\* The caller enters recheck_and_resume_async(torrent_hash, on_complete).
\* Step 1: torrent = self._get_torrent(torrent_hash); not found returns.
CallStart(c) ==
    /\ calls[c].pc = "idle"
    /\ \E h \in Hashes, o \in Observations :
         LET f == [IdleCall EXCEPT !.hash = h, !.ev = c] IN
         calls' = [calls EXCEPT ![c] =
                     IF o = Raise THEN [f EXCEPT !.pc = "done", !.result = Raised]
                     ELSE IF o = Absent
                     THEN [f EXCEPT !.pc = "done", !.result = <<FALSE, "Torrent not found">>]
                     ELSE [f EXCEPT !.pc = "check"]]
    /\ UNCHANGED <<nonBg, active_tasks, events_set, tasks, executor_down, shut>>

\* A variant of the test that never finds the identifier.
AlreadyInProgress_Never(h) == FALSE

\* Step 2's test, made holding _tasks_lock.
AlreadyInProgress(h) == h \in DOMAIN active_tasks

\* Step 2: with self._tasks_lock: if torrent_hash in self._active_tasks: return
CallCheckActive(c) ==
    /\ calls[c].pc = "check"
    /\ calls' = IF AlreadyInProgress(calls[c].hash)
                THEN Return(c, <<TRUE, "Recheck already in progress (monitored)">>)
                ELSE [calls EXCEPT ![c].pc = "recheck"]
    /\ UNCHANGED <<nonBg, active_tasks, events_set, tasks, executor_down, shut>>

\* Step 3: self.api_client.torrents_recheck(...), an exception caught
CallRecheck(c) ==
    /\ calls[c].pc = "recheck"
    /\ \E raises \in BOOLEAN :
         calls' = IF raises
                  THEN [Return(c, <<FALSE, "Failed to start recheck">>)
                          EXCEPT ![c].rechecks = @ + 1]
                  ELSE [calls EXCEPT ![c].pc = "quick", ![c].rechecks = @ + 1]
    /\ UNCHANGED <<nonBg, active_tasks, events_set, tasks, executor_down, shut>>

\* _quick_wait_for_recheck_start over the observations obs of its polls, the
\* ceiling elapsing after the last of them: "True", "False" or Raise.
RECURSIVE quick_wait_for_recheck_start(_)
quick_wait_for_recheck_start(obs) ==
    IF obs = <<>> THEN "False"
    ELSE LET s == Head(obs) IN
         IF s = Raise THEN Raise
         ELSE IF s = Absent THEN "False"
         ELSE IF s \in checking_states THEN "True"
         ELSE IF s \in active_states THEN "True"
         ELSE quick_wait_for_recheck_start(Tail(obs))

PollSeqs(n) == UNION {[1..k -> Observations] : k \in 1..n}

\* the quick-start wait returned True on a status that is ACTIVE and not
\* CHECKING, no poll before it having seen a CHECKING status
RECURSIVE InstantRecheck(_)
InstantRecheck(obs) ==
    IF obs = <<>> THEN FALSE
    ELSE LET s == Head(obs) IN
         IF s \in {Raise, Absent} \/ s \in checking_states THEN FALSE
         ELSE IF s \in active_states THEN TRUE
         ELSE InstantRecheck(Tail(obs))

\* Step 4: recheck_started = self._quick_wait_for_recheck_start(torrent_hash)
CallQuickWait(c) ==
    /\ calls[c].pc = "quick"
    /\ \E obs \in PollSeqs(MaxQuickPolls) :
         LET started == quick_wait_for_recheck_start(obs) IN
         calls' = IF started = Raise THEN Return(c, Raised)
                  ELSE IF started = "True"
                  THEN [calls EXCEPT ![c].pc = "register",
                                     ![c].instant = InstantRecheck(obs)]
                  ELSE [calls EXCEPT ![c].pc = "post"]
    /\ UNCHANGED <<nonBg, active_tasks, events_set, tasks, executor_down, shut>>

\* A variant that registers the identifier before the state is read.
CallPostCheck_RegistersFirst(c) ==
    /\ calls[c].pc = "post"
    /\ active_tasks' = DictSet(active_tasks, calls[c].hash, calls[c].ev)
    /\ \E s \in Observations :
         calls' = IF s = Raise THEN Return(c, Raised)
                  ELSE IF s # Absent /\ s \in active_states
                  THEN Return(c, <<TRUE, "Torrent already active">>)
                  ELSE IF s # Absent /\ s \in error_states
                  THEN Return(c, <<FALSE, "Torrent in error state">>)
                  ELSE [calls EXCEPT ![c].pc = "submit"]
    /\ UNCHANGED <<nonBg, events_set, tasks, executor_down, shut>>

\* if not recheck_started: the state is read once more
CallPostCheck(c) ==
    /\ calls[c].pc = "post"
    /\ \E s \in Observations :
         calls' = IF s = Raise THEN Return(c, Raised)
                  ELSE IF s # Absent /\ s \in active_states
                  THEN Return(c, <<TRUE, "Torrent already active">>)
                  ELSE IF s # Absent /\ s \in error_states
                  THEN Return(c, <<FALSE, "Torrent in error state">>)
                  ELSE [calls EXCEPT ![c].pc = "register"]
    /\ UNCHANGED <<nonBg, active_tasks, events_set, tasks, executor_down, shut>>

\* Step 5: cancel_event = threading.Event(); with lock: _active_tasks[hash] = it
CallRegister(c) ==
    /\ calls[c].pc = "register"
    /\ active_tasks' = DictSet(active_tasks, calls[c].hash, calls[c].ev)
    /\ calls' = [calls EXCEPT ![c].pc = "submit"]
    /\ UNCHANGED <<nonBg, events_set, tasks, executor_down, shut>>

\* self._executor.submit(...): RuntimeError once the executor is shut down;
\* otherwise the work item is queued (on_complete supplied or None) and the
\* call returns "monitoring".
CallSubmit(c) ==
    /\ calls[c].pc = "submit"
    /\ IF executor_down
       THEN /\ calls' = Return(c, Raised)
            /\ tasks' = tasks
       ELSE /\ \E cb \in BOOLEAN :
                 tasks' = Append(tasks, NewTask(calls[c].hash, calls[c].ev, cb))
            /\ calls' = [Return(c, <<TRUE, "monitoring in background">>)
                           EXCEPT ![c].submits = @ + 1]
    /\ UNCHANGED <<nonBg, active_tasks, events_set, executor_down, shut>>

(***************************************************************************)
(* The background task: _background_recheck_completion and what it calls.  *)
(***************************************************************************)
Cancelled == <<FALSE, "Cancelled">>
BackgroundError == <<FALSE, "Background error">>

SetTask(i, t) == [tasks EXCEPT ![i] = t]

InResumePhase(t) == t.pc = "resume" \/ t.pc = "finalcheck"

\* The task leaves the phase that precedes resume: note whether its flag was
\* set by then.
Leaving(t) ==
    [t EXCEPT !.flagBeforeResume = @ \/ (~InResumePhase(t) /\ t.ev \in events_set)]

\* A variant of _notify_complete without its try/except: an exception of the
\* callback reaches the task's except clause, which notifies again.
NotifyComplete_Uncaught(t, ok, msg, cbRaises) ==
    LET escapes == t.cb /\ cbRaises /\ msg # "Background error" IN
    [Leaving(t) EXCEPT !.cbCount = IF t.cb THEN (IF escapes THEN @ + 2 ELSE @ + 1) ELSE @,
                       !.cbRaised = t.cb /\ cbRaises,
                       !.report = IF escapes THEN <<FALSE, "Background error">>
                                  ELSE <<ok, msg>>,
                       !.pc = "finally",
                       !.polls = 0, !.stall_warned = FALSE,
                       !.attempt = 0, !.completed = FALSE]

\* _notify_complete(callback, success, message): the callback, if supplied, is
\* invoked; an exception it raises is caught and logged. The task goes on to
\* its finally clause.
NotifyComplete(t, ok, msg, cbRaises) ==
    [Leaving(t) EXCEPT !.cbCount = IF t.cb THEN @ + 1 ELSE @,
                       !.cbRaised = t.cb /\ cbRaises,
                       !.report = <<ok, msg>>,
                       !.pc = "finally",
                       !.polls = 0, !.stall_warned = FALSE,
                       !.attempt = 0, !.completed = FALSE]

\* except Exception as e: log, _notify_complete(on_complete, False, "Background error: ...")
ExceptHandler(t, cbRaises) == NotifyComplete(t, FALSE, "Background error", cbRaises)

\* A pool worker takes the queued work item and enters the task body.
TaskStart(i) ==
    /\ i \in DOMAIN tasks
    /\ tasks[i].pc = "queued"
    /\ Cardinality(Running) < max_workers
    /\ tasks' = SetTask(i, [tasks[i] EXCEPT !.pc = "loop"])
    /\ UNCHANGED <<nonBg, active_tasks, events_set, calls, executor_down, shut>>

\* _wait_for_recheck_complete_with_progress: the loop's condition and, inside
\* the loop, the test of cancel_event.
TaskLoopTop(i) ==
    /\ i \in DOMAIN tasks
    /\ tasks[i].pc = "loop"
    /\ \/ /\ tasks[i].polls >= 1            \* time.time() - start >= recheck_timeout
          /\ tasks' = SetTask(i, [tasks[i] EXCEPT !.pc = "final",
                                                  !.stall_warned = FALSE])
       \/ /\ tasks[i].polls < MaxPolls
          /\ tasks' = SetTask(i,
                IF tasks[i].ev \in events_set
                THEN [tasks[i] EXCEPT !.pc = "postwait", !.completed = FALSE,
                                      !.stall_warned = FALSE]
                ELSE [tasks[i] EXCEPT !.pc = "poll"])
    /\ UNCHANGED <<nonBg, active_tasks, events_set, calls, executor_down, shut>>

\* A variant in which a stall ends the wait as not completed.
PollOutcome_StallEnds(t, s, stalled) ==
    IF s = Absent
    THEN [t EXCEPT !.pc = "postwait", !.completed = FALSE, !.stall_warned = FALSE]
    ELSE IF s \notin checking_states
         THEN [t EXCEPT !.pc = "postwait", !.completed = (s \notin error_states),
                        !.stall_warned = FALSE]
         ELSE IF stalled
              THEN [t EXCEPT !.pc = "postwait", !.completed = FALSE,
                             !.stall_warned = FALSE]
              ELSE [t EXCEPT !.pc = "loop", !.polls = @ + 1]

\* One poll of the loop: what (completed, state) it returns, if it returns.
\* stalled: progress has not advanced for longer than progress_stall_timeout,
\* which logs a warning and resets the stall timer.
PollOutcome(t, s, stalled) ==
    IF s = Absent
    THEN [t EXCEPT !.pc = "postwait", !.completed = FALSE, !.stall_warned = FALSE]
    ELSE IF s \notin checking_states
         THEN [t EXCEPT !.pc = "postwait", !.completed = (s \notin error_states),
                        !.stall_warned = FALSE]
         ELSE [t EXCEPT !.pc = "loop", !.polls = @ + 1,
                        !.stall_warned = @ \/ stalled]

TaskPoll(i) ==
    /\ i \in DOMAIN tasks
    /\ tasks[i].pc = "poll"
    /\ \E s \in Observations, cbRaises \in BOOLEAN, stalled \in BOOLEAN :
         tasks' = SetTask(i, IF s = Raise THEN ExceptHandler(tasks[i], cbRaises)
                             ELSE PollOutcome(tasks[i], s, stalled))
    /\ UNCHANGED <<nonBg, active_tasks, events_set, calls, executor_down, shut>>

\* After the ceiling: the state is read once more.
FinalOutcome(t, s) ==
    IF s # Absent /\ s \in checking_states
    THEN [t EXCEPT !.pc = "postwait", !.completed = FALSE]
    ELSE [t EXCEPT !.pc = "postwait", !.completed = TRUE]

TaskFinal(i) ==
    /\ i \in DOMAIN tasks
    /\ tasks[i].pc = "final"
    /\ \E s \in Observations, cbRaises \in BOOLEAN :
         tasks' = SetTask(i, IF s = Raise THEN ExceptHandler(tasks[i], cbRaises)
                             ELSE FinalOutcome(tasks[i], s))
    /\ UNCHANGED <<nonBg, active_tasks, events_set, calls, executor_down, shut>>

\* A variant without the test of cancel_event after the wait.
PostWait_NoCancelTest(t, cbRaises) ==
    IF ~t.completed
    THEN NotifyComplete(t, FALSE, "Recheck failed", cbRaises)
    ELSE [Leaving(t) EXCEPT !.pc = "resume", !.polls = 0]

\* After the wait: if cancel_event.is_set() ... ; if not completed ... ; else resume.
PostWait(t, cbRaises) ==
    IF t.ev \in events_set
    THEN NotifyComplete(t, FALSE, "Cancelled", cbRaises)
    ELSE IF ~t.completed
         THEN NotifyComplete(t, FALSE, "Recheck failed", cbRaises)
         ELSE [Leaving(t) EXCEPT !.pc = "resume", !.polls = 0]

TaskPostWait(i) ==
    /\ i \in DOMAIN tasks
    /\ tasks[i].pc = "postwait"
    /\ \E cbRaises \in BOOLEAN : tasks' = SetTask(i, PostWait(tasks[i], cbRaises))
    /\ UNCHANGED <<nonBg, active_tasks, events_set, calls, executor_down, shut>>

\* A variant of the attempt whose budget is one attempt larger.
ResumeAttempt_ExtraAttempt(t, s, cbRaises) ==
    LET r == [t EXCEPT !.resumes = @ + 1] IN
    IF s = Raise THEN ExceptHandler(r, cbRaises)
    ELSE IF s = Absent
    THEN NotifyComplete(r, FALSE, "Torrent not found after resume", cbRaises)
    ELSE IF s \in active_states
    THEN NotifyComplete(r, TRUE, "Active in state", cbRaises)
    ELSE IF s \in error_states
    THEN NotifyComplete(r, FALSE, "Error state", cbRaises)
    ELSE [r EXCEPT !.attempt = @ + 1,
                   !.pc = IF t.attempt + 1 < max_attempts_bg + 1 THEN "resume"
                          ELSE "finalcheck"]

\* One attempt of _background_resume_and_verify: the resume request (an
\* exception of it caught and logged), then the poll that follows it.
ResumeAttempt(t, s, cbRaises) ==
    LET r == [t EXCEPT !.resumes = @ + 1] IN
    IF s = Raise THEN ExceptHandler(r, cbRaises)
    ELSE IF s = Absent
    THEN NotifyComplete(r, FALSE, "Torrent not found after resume", cbRaises)
    ELSE IF s \in active_states
    THEN NotifyComplete(r, TRUE, "Active in state", cbRaises)
    ELSE IF s \in error_states
    THEN NotifyComplete(r, FALSE, "Error state", cbRaises)
    ELSE [r EXCEPT !.attempt = @ + 1,
                   !.pc = IF t.attempt + 1 < max_attempts_bg THEN "resume"
                          ELSE "finalcheck"]

TaskResume(i) ==
    /\ i \in DOMAIN tasks
    /\ tasks[i].pc = "resume"
    /\ \E s \in Observations, cbRaises \in BOOLEAN :
         tasks' = SetTask(i, ResumeAttempt(tasks[i], s, cbRaises))
    /\ UNCHANGED <<nonBg, active_tasks, events_set, calls, executor_down, shut>>

\* Final check - accept non-error states
FinalCheckOutcome(t, s, cbRaises) ==
    IF s = Raise THEN ExceptHandler(t, cbRaises)
    ELSE IF s # Absent /\ s \notin error_states
    THEN NotifyComplete(t, TRUE, "Exists in state", cbRaises)
    ELSE NotifyComplete(t, FALSE, "Failed to resume", cbRaises)

TaskFinalCheck(i) ==
    /\ i \in DOMAIN tasks
    /\ tasks[i].pc = "finalcheck"
    /\ \E s \in Observations, cbRaises \in BOOLEAN :
         tasks' = SetTask(i, FinalCheckOutcome(tasks[i], s, cbRaises))
    /\ UNCHANGED <<nonBg, active_tasks, events_set, calls, executor_down, shut>>

\* finally: with self._tasks_lock: self._active_tasks.pop(torrent_hash, None)
TaskFinally(i) ==
    /\ i \in DOMAIN tasks
    /\ tasks[i].pc = "finally"
    /\ active_tasks' = DictPop(active_tasks, tasks[i].hash)
    /\ tasks' = SetTask(i, DoneTask(tasks[i]))
    /\ UNCHANGED <<nonBg, events_set, calls, executor_down, shut>>

(***************************************************************************)
(* cancel_background_recheck and shutdown.                                 *)
(***************************************************************************)
\* with lock: if hash in _active_tasks: _active_tasks[hash].set(); return True
CancelBackgroundRecheck(h) ==
    /\ events_set' = IF h \in DOMAIN active_tasks
                     THEN events_set \cup {active_tasks[h]}
                     ELSE events_set
    /\ UNCHANGED <<nonBg, active_tasks, calls, tasks, executor_down, shut>>

\* shutdown(wait): with lock: for event in _active_tasks.values(): event.set()
ShutdownCancelAll ==
    /\ shut.pc = "idle"
    /\ \E w \in BOOLEAN : shut' = [pc |-> "executor", wait |-> w]
    /\ events_set' = events_set \cup {active_tasks[h] : h \in DOMAIN active_tasks}
    /\ UNCHANGED <<nonBg, active_tasks, calls, tasks, executor_down>>

\* self._executor.shutdown(wait=wait): no new work items from here on; with
\* wait=False the session is logged out next and shutdown returns.
ShutdownExecutor ==
    /\ shut.pc = "executor"
    /\ executor_down' = TRUE
    /\ shut' = IF shut.wait THEN [shut EXCEPT !.pc = "join"]
               ELSE [pc |-> "done", wait |-> FALSE]
    /\ UNCHANGED <<nonBg, active_tasks, events_set, calls, tasks>>

\* wait=True: the workers are joined, which ends when every work item has
\* run; then the session is logged out and shutdown returns.
ShutdownJoin ==
    /\ shut.pc = "join"
    /\ \A i \in DOMAIN tasks : tasks[i].pc = "done"
    /\ shut' = [shut EXCEPT !.pc = "done"]
    /\ UNCHANGED <<nonBg, active_tasks, events_set, calls, tasks, executor_down>>

CallStep(c) ==
    \/ CallCheckActive(c) \/ CallRecheck(c) \/ CallQuickWait(c)
    \/ CallPostCheck(c) \/ CallRegister(c) \/ CallSubmit(c)

TaskStep(i) ==
    \/ TaskStart(i) \/ TaskLoopTop(i) \/ TaskPoll(i) \/ TaskFinal(i) \/ TaskPostWait(i)
    \/ TaskResume(i) \/ TaskFinalCheck(i) \/ TaskFinally(i)

ShutdownStep == ShutdownExecutor \/ ShutdownJoin

NextBg ==
    \/ \E c \in Callers : CallStart(c)
    \/ \E c \in Callers : CallStep(c)
    \/ \E i \in TaskIds : TaskStep(i)
    \/ \E h \in Hashes : CancelBackgroundRecheck(h)
    \/ ShutdownCancelAll
    \/ ShutdownStep

SpecBg == InitBg /\ [][NextBg]_vars

\* Threads that have begun a call, pool workers and a shutdown in progress keep
\* running; nothing obliges anyone to start a call, to cancel or to shut down.
SpecBgFair ==
    /\ SpecBg
    /\ \A c \in Callers : WF_vars(CallStep(c))
    /\ \A i \in TaskIds : WF_vars(TaskStep(i))
    /\ WF_vars(ShutdownStep)

(***************************************************************************)
(* Properties of the background supervisor (SpecBg).                       *)
(***************************************************************************)
AlreadyResult == <<TRUE, "Recheck already in progress (monitored)">>

\* C1: whatever the interleaving of two concurrent recheck_and_resume_async
\* calls for one identifier, at no moment do two background tasks (queued or
\* running) exist for that identifier.
C1_AtMostOneTaskPerId == \A h \in Hashes : Cardinality(LiveTasksOf(h)) <= 1

\* C2: a call that finds its identifier registered when it tests the
\* active-task map returns (True, 'already in progress') from that step; it
\* has issued and issues no recheck request, submits no task, and leaves the
\* map, the cancellation flags and the pool as they are.
C2_AlreadyRegisteredIsNoOp ==
    [][\A c \in Callers :
         (calls[c].pc = "check" /\ Registered(calls[c].hash) /\ calls'[c] # calls[c])
         => /\ calls'[c].pc = "done"
            /\ calls'[c].result = AlreadyResult
            /\ calls'[c].rechecks = 0
            /\ calls'[c].submits = 0
            /\ active_tasks' = active_tasks
            /\ events_set' = events_set
            /\ tasks' = tasks]_vars

C2_Witness ==
    \E c \in Callers :
        /\ calls[c].pc = "done"
        /\ calls[c].result = AlreadyResult
        /\ Registered(calls[c].hash)

\* C3: a task started with a completion callback has invoked it exactly once
\* when it reaches its finally clause, whatever the outcome, an exception of
\* the callback included, and never more than once before.
C3_CallbackExactlyOnce ==
    \A i \in DOMAIN tasks :
        tasks[i].cb =>
            /\ tasks[i].cbCount <= 1
            /\ (tasks[i].pc = "finally") <=> (tasks[i].cbCount = 1)

C3_Witness ==
    \E i \in DOMAIN tasks :
        /\ tasks[i].cb /\ tasks[i].pc = "finally"
        /\ tasks[i].cbRaised /\ tasks[i].cbCount = 1
        /\ tasks[i].report = BackgroundError

\* C4 (as stated): a task whose cancellation flag is set before it enters
\* its resume phase issues no resume request and reports (False, 'Cancelled').
C4_CancelledBeforeResume_Original ==
    \A i \in DOMAIN tasks :
        tasks[i].flagBeforeResume =>
            /\ tasks[i].resumes = 0
            /\ tasks[i].pc = "finally" => tasks[i].report = Cancelled

\* C4: a task whose cancellation flag is set before it enters its
\* resume phase issues no resume request and reports failure: (False,
\* 'Cancelled'), or (False, 'Background error ...') when a query of the remote
\* client raised in the task before the flag was tested.
C4_CancelledBeforeResume ==
    \A i \in DOMAIN tasks :
        tasks[i].flagBeforeResume =>
            /\ tasks[i].resumes = 0
            /\ tasks[i].pc = "finally" => tasks[i].report \in {Cancelled, BackgroundError}

C4_Witness ==
    \E i \in DOMAIN tasks :
        /\ tasks[i].flagBeforeResume
        /\ tasks[i].pc = "finally"
        /\ tasks[i].report = Cancelled

\* No call is between its entry and its return, and no work item is queued or
\* running.
Quiescent ==
    /\ \A c \in Callers : calls[c].pc \in {"idle", "done"}
    /\ \A i \in DOMAIN tasks : tasks[i].pc = "done"

\* C5: every identifier registered in the active-task map is removed in the
\* end: once every call has returned and every task has ended, the map is
\* empty.
C5_RegisteredIsRemoved == Quiescent => DOMAIN active_tasks = {}

(***************************************************************************)
(* SpecClient: delete_torrent, and further down add_torrent, against the   *)
(* remote client, which here is state: remote[h] is the torrent's status,  *)
(* or Absent.                                                              *)
(***************************************************************************)
\* The remote client moves a torrent to another status, loses it, or is given
\* it by someone else.
RemoteChange ==
    /\ \E h \in Hashes, s \in RemoteStates :
         /\ s # remote[h]
         /\ remote' = [remote EXCEPT ![h] = s]
         /\ pending_delete' = IF s = Absent THEN pending_delete \ {h} ELSE pending_delete
    /\ UNCHANGED <<bgVars, orch, nm, rt, ad, nadds, delete_log, del, ndeletes>>

\* The remote client carries out a removal it had accepted.
RemoteApplyDelete ==
    /\ \E h \in pending_delete :
         /\ remote' = [remote EXCEPT ![h] = Absent]
         /\ pending_delete' = pending_delete \ {h}
    /\ UNCHANGED <<bgVars, orch, nm, rt, ad, nadds, delete_log, del, ndeletes>>

\* The caller enters delete_torrent(delete_files, torrent_hashes).
DelStart ==
    /\ del.pc \in {"idle", "done"}
    /\ ndeletes < MaxDeletes
    /\ \E h \in Hashes, df \in BOOLEAN :
         del' = [IdleDel EXCEPT !.pc = "check", !.hash = h, !.delete_files = df]
    /\ ndeletes' = ndeletes + 1
    /\ UNCHANGED <<bgVars, orch, nm, rt, ad, nadds, remote, pending_delete, delete_log>>

\* A variant of the first test that goes on to the request in every case.
DeleteCheck_NoShortCircuit(f, found) ==
    [f EXCEPT !.pc = "request", !.sawAbsent = ~found]

\* if not self._get_torrent(torrent_hashes): return True
DeleteCheck(f, found) ==
    IF ~found
    THEN [f EXCEPT !.pc = "done", !.result = "True", !.sawAbsent = TRUE]
    ELSE [f EXCEPT !.pc = "request"]

\* except Exception as e: raise Exception(f"Failed to delete torrent: ...")
DeleteRaised(f) == [f EXCEPT !.pc = "done", !.result = "raised"]

DelCheck ==
    /\ del.pc = "check"
    /\ \E raises \in BOOLEAN :
         del' = IF raises THEN DeleteRaised(del)
                ELSE DeleteCheck(del, remote[del.hash] # Absent)
    /\ UNCHANGED <<bgVars, orch, nm, rt, ad, nadds, remote, pending_delete, delete_log, ndeletes>>

\* self.api_client.torrents_delete(delete_files=..., torrent_hashes=...): the
\* request reaches the remote client or not, and the call may raise either
\* way; a request received removes the torrent at once or a little later.
DelRequest ==
    /\ del.pc = "request"
    /\ \E reached \in BOOLEAN, raises \in BOOLEAN, atOnce \in BOOLEAN :
         /\ reached \/ raises
         /\ del' = IF raises THEN [DeleteRaised(del) EXCEPT !.requests = @ + 1]
                   ELSE [del EXCEPT !.pc = "verify", !.requests = @ + 1]
         /\ delete_log' = IF reached
                          THEN Append(delete_log, <<del.delete_files, del.hash>>)
                          ELSE delete_log
         /\ IF reached /\ remote[del.hash] # Absent
            THEN IF atOnce
                 THEN /\ remote' = [remote EXCEPT ![del.hash] = Absent]
                      /\ pending_delete' = pending_delete \ {del.hash}
                 ELSE /\ remote' = remote
                      /\ pending_delete' = pending_delete \cup {del.hash}
            ELSE UNCHANGED <<remote, pending_delete>>
    /\ UNCHANGED <<bgVars, orch, nm, rt, ad, nadds, ndeletes>>

\* time.sleep(1); return self._get_torrent(torrent_hashes) is None
DelVerify ==
    /\ del.pc = "verify"
    /\ \E raises \in BOOLEAN :
         del' = IF raises THEN DeleteRaised(del)
                ELSE [del EXCEPT !.pc = "done",
                                 !.result = IF remote[del.hash] = Absent THEN "True"
                                            ELSE "False"]
    /\ UNCHANGED <<bgVars, orch, nm, rt, ad, nadds, remote, pending_delete, delete_log, ndeletes>>

(***************************************************************************)
(* add_torrent against the remote client.                                  *)
(***************************************************************************)
ReturnedNone == "None"

\* The caller enters add_torrent(torrents, ...).
AddStart ==
    /\ ad.pc \in {"idle", "done"}
    /\ nadds < MaxAdds
    /\ \E h \in Hashes : ad' = [IdleAdd EXCEPT !.pc = "check", !.hash = h]
    /\ nadds' = nadds + 1
    /\ UNCHANGED <<bgVars, orch, nm, rt, remote, pending_delete, delete_log, del, ndeletes>>

\* except Exception as e: raise Exception(f"Failed to add torrent: ...")
AddRaised(f) == [f EXCEPT !.pc = "done", !.result = "raised"]

\* if self._get_torrent(torrent_hash): log; return None
AddCheck(f, found) ==
    IF found
    THEN [f EXCEPT !.pc = "done", !.result = ReturnedNone, !.sawPresent = TRUE]
    ELSE [f EXCEPT !.pc = "request"]

\* torrent_hash = self._calculate_torrent_hash(torrents), then the first read
AddTorrentCheck ==
    /\ ad.pc = "check"
    /\ \E raises \in BOOLEAN :
         ad' = IF raises THEN AddRaised(ad)
               ELSE AddCheck(ad, remote[ad.hash] # Absent)
    /\ UNCHANGED <<bgVars, orch, nm, rt, remote, pending_delete, delete_log, del, ndeletes, nadds>>

\* self.api_client.torrents_add(...): the remote client adds the torrent in
\* some status at once, or later, or not at all; it answers a request for a
\* torrent it already has with Conflict409Error or with nothing; any other
\* exception may be raised either way.
AddTorrentRequest ==
    /\ ad.pc = "request"
    /\ \E outcome \in {"ok", "conflict", "raises"}, added \in Statuses \cup {Absent} :
         /\ outcome = "conflict" => remote[ad.hash] # Absent
         /\ ad' = IF outcome = "raises"
                  THEN [AddRaised(ad) EXCEPT !.requests = @ + 1]
                  ELSE IF outcome = "conflict"
                  THEN [ad EXCEPT !.pc = "done", !.result = ReturnedNone,
                                  !.requests = @ + 1, !.conflict = TRUE]
                  ELSE [ad EXCEPT !.pc = "verify", !.requests = @ + 1]
         /\ remote' = IF remote[ad.hash] = Absent /\ outcome # "conflict"
                      THEN [remote EXCEPT ![ad.hash] = added]
                      ELSE remote
    /\ UNCHANGED <<bgVars, orch, nm, rt, pending_delete, delete_log, del, ndeletes, nadds>>

\* A variant that returns the identifier without reading the client again.
AddVerified_Unread(f, found) ==
    [f EXCEPT !.pc = "done", !.result = f.hash]

\* time.sleep(1); if self._get_torrent(torrent_hash): return torrent_hash; return None
AddVerified(f, found) ==
    [f EXCEPT !.pc = "done", !.visible = IF found THEN "yes" ELSE "no",
              !.result = IF found THEN f.hash ELSE ReturnedNone]

AddTorrentVerify ==
    /\ ad.pc = "verify"
    /\ \E raises \in BOOLEAN :
         ad' = IF raises THEN AddRaised(ad)
               ELSE AddVerified(ad, remote[ad.hash] # Absent)
    /\ UNCHANGED <<bgVars, orch, nm, rt, remote, pending_delete, delete_log, del, ndeletes, nadds>>

InitClientSpec ==
    /\ remote \in [Hashes -> RemoteStates]
    /\ InitBgOnly
    /\ InitClient
    /\ Unused(TRUE, TRUE, TRUE)

NextClient ==
    \/ RemoteChange
    \/ RemoteApplyDelete
    \/ DelStart
    \/ DelCheck
    \/ DelRequest
    \/ DelVerify
    \/ AddStart
    \/ AddTorrentCheck
    \/ AddTorrentRequest
    \/ AddTorrentVerify

SpecClient == InitClientSpec /\ [][NextClient]_vars

\* C6: delete_torrent for an identifier it finds absent returns True from
\* that step, issues no delete request and leaves the remote client as it is;
\* a call that found the identifier absent has sent the remote client nothing.
C6_DeleteAbsentIsNoOp ==
    /\ [](del.sawAbsent => (del.pc = "done" /\ del.result = "True" /\ del.requests = 0))
    /\ [][(del.pc = "check" /\ remote[del.hash] = Absent /\ del'.pc # "check"
           /\ del'.result # "raised")
          => /\ del'.pc = "done" /\ del'.result = "True" /\ del'.sawAbsent
             /\ delete_log' = delete_log
             /\ remote' = remote
             /\ pending_delete' = pending_delete]_vars

C6_Witness ==
    /\ del.sawAbsent /\ del.pc = "done" /\ del.result = "True"
    /\ ndeletes = 2
    /\ Len(delete_log) = 1


(***************************************************************************)
(* The orchestrator: update(), add() and process_torrent() of              *)
(* utils/torrent_processor.py.  The torrent client and the indexer are     *)
(* external: every call to them returns one of the values it can return,   *)
(* or raises.  A date is a string, modelled as a sequence of characters.   *)
(***************************************************************************)
Dates == {<<>>, <<1>>, <<1, 2>>, <<2>>}

\* Python's `a in b` on strings
IsSubstring(a, b) ==
    \E k \in 0..(Len(b) - Len(a)) : SubSeq(b, k + 1, k + Len(a)) = a

\* update(): `if title.publish_date not in torrent.date`
DateIsDifferent_Always(stored, current) == TRUE

DateIsDifferent(stored, current) == ~IsSubstring(stored, current)

None == "None"

\* update() can be handed no Title: `if title == None`
NoTitle == [none |-> TRUE]

IsNone(title) == DOMAIN title = {"none"}

ClientVariants == {"qbittorrent", "transmission"}

\* a file of the added torrent: how many numeric tokens get_numbers finds in
\* its name, and whether it already carries the name the renaming computes
NumTokens == 0..2

FileKinds == [ntok : NumTokens, same : BOOLEAN]

FileLists == UNION {[1..n -> FileKinds] : n \in 1..MaxFiles}

EpisodeIndexes == {-1, 0, 1}

StoredTitles ==
    [publish_date : Dates, hash : {"oldhash"}, guid : {"t1"},
     is_partial_season : BOOLEAN, episode_index : EpisodeIndexes]

NewTitles ==
    [publish_date : {<<>>}, hash : {""}, guid : {""},
     is_partial_season : BOOLEAN, episode_index : EpisodeIndexes]

\* the frame of one update() or add() call at its entry
OrchFrame(op, client, force, title) ==
    [pc |-> "enter", op |-> op, client |-> client, force |-> force,
     new |-> (op = "add"), title |-> title, title0 |-> title,
     torrent_date |-> <<>>, compared |-> FALSE, dateDiffers |-> FALSE,
     add_torrent_response |-> None, already_present |-> FALSE,
     files |-> <<>>, i |-> 0,
     client_calls |-> <<>>, operation_logs |-> <<>>,
     response_code |-> "unset", persisted |-> 0, end_sessions |-> 0]

InitOrch ==
    \/ \E client \in ClientVariants, force \in BOOLEAN,
          title \in StoredTitles \cup {NoTitle} :
          orch = OrchFrame("update", client, force, title)
    \/ \E client \in ClientVariants, title \in NewTitles, d \in Dates :
          orch = [OrchFrame("add", client, FALSE, title)
                      EXCEPT !.torrent_date = d]

OrchCall(name, args, ret) == [name |-> name, args |-> args, ret |-> ret]

Log(o, message) == [o EXCEPT !.operation_logs = Append(@, message)]

Asked(o, name, args, ret) ==
    [o EXCEPT !.client_calls = Append(@, OrchCall(name, args, ret))]

\* A variant in which add() returns without ending the session.
ProcessReturn_NoEndSession(o) == [o EXCEPT !.pc = "done"]

\* process_torrent returns to add(), which ends the session, or to update()
ProcessReturn(o) ==
    [o EXCEPT !.pc = IF o.op = "add" THEN "end_session" ELSE "done"]

ProcessFail(o, message) ==
    ProcessReturn([Log(o, message) EXCEPT !.response_code = "FAILURE"])

OrchRaise(o) == [o EXCEPT !.pc = "raised"]


orchFrame == <<remote, bgVars, clVars, nm, rt>>

\* update(), lines 231-235
UpdateEnter ==
    /\ orch.pc = "enter" /\ orch.op = "update"
    /\ orch' = IF IsNone(orch.title)
               THEN [Log(orch, "Title not found")
                         EXCEPT !.response_code = "FAILURE", !.pc = "done"]
               ELSE [orch EXCEPT !.pc = "get_torrent"]
    /\ UNCHANGED orchFrame

\* update(), lines 237-246 and 271-275: the indexer's answer and the date test
UpdateCompare(o, date) ==
    LET o1 == [o EXCEPT !.torrent_date = date, !.compared = TRUE,
                        !.dateDiffers = DateIsDifferent(o.title.publish_date, date)]
    IN  IF o1.dateDiffers
        THEN LET o2 == Log(o1, "Date is different!")
             IN  IF ~o.force
                 THEN [o2 EXCEPT !.pc =
                          IF o.title.is_partial_season /\ o.client = "qbittorrent"
                          THEN "rename_base" ELSE "delete"]
                 ELSE [o2 EXCEPT !.pc = "done"]
        ELSE [Log(o1, "Update not required!")
                  EXCEPT !.response_code = "SUCCESS", !.pc = "done"]

UpdateGetTorrent ==
    /\ orch.pc = "get_torrent"
    /\ \/ \E date \in Dates : orch' = UpdateCompare(orch, date)
       \/ orch' = OrchRaise(orch)
    /\ UNCHANGED orchFrame

\* update(), lines 248-256
UpdateRenameBase ==
    /\ orch.pc = "rename_base"
    /\ \/ \E renamed \in BOOLEAN :
            orch' = [Asked(orch, "rename_folder",
                           <<orch.title.hash, "current", "base">>, renamed)
                         EXCEPT !.pc = "delete"]
       \/ orch' = OrchRaise(orch)
    /\ UNCHANGED orchFrame

\* update(), line 260
DeleteFailed_Never(delete_success) == FALSE

DeleteFailed(delete_success) == ~delete_success

\* update(), lines 259-270
UpdateDelete ==
    /\ orch.pc = "delete"
    /\ \/ \E delete_success \in BOOLEAN :
            LET o1 == Asked(orch, "delete_torrent", <<FALSE, orch.title.hash>>,
                            delete_success)
            IN  orch' = IF DeleteFailed(delete_success)
                        THEN [Log(o1, "Failed to delete old torrent")
                                  EXCEPT !.response_code = "FAILURE", !.pc = "done"]
                        ELSE [o1 EXCEPT !.pc = "download"]
       \/ orch' = OrchRaise(orch)
    /\ UNCHANGED orchFrame

\* add(), lines 280-282
AddEnter ==
    /\ orch.pc = "enter" /\ orch.op = "add"
    /\ orch' = [orch EXCEPT !.pc = "download"]
    /\ UNCHANGED orchFrame

\* process_torrent(), lines 19-23
ProcessDownload ==
    /\ orch.pc = "download"
    /\ LET o1 == [orch EXCEPT !.title.publish_date = orch.torrent_date]
       IN  \/ orch' = [o1 EXCEPT !.pc = "add_torrent"]
           \/ orch' = OrchRaise(o1)
    /\ UNCHANGED orchFrame

\* A variant that takes the identifier into the Title before testing it.
AfterAddTorrent_AssignFirst(o, add_torrent_response) ==
    LET o1 == [o EXCEPT !.title.hash = add_torrent_response]
    IN  IF add_torrent_response = None
        THEN ProcessFail(o1, "Torrent already exists")
        ELSE [o1 EXCEPT !.add_torrent_response = add_torrent_response,
                        !.pc = "get_info"]

\* process_torrent(), lines 36-43: `if add_torrent_response is None`
AfterAddTorrent(o, add_torrent_response) ==
    IF add_torrent_response = None
    THEN ProcessFail(o, "Torrent already exists")
    ELSE [o EXCEPT !.add_torrent_response = add_torrent_response,
                   !.pc = "get_info"]

\* process_torrent(), lines 28-41; add_torrent returns None for a torrent it
\* found present, and for one it did not see after the request
ProcessAddTorrent ==
    /\ orch.pc = "add_torrent"
    /\ \/ \E add_torrent_response \in {"newhash", None}, present \in BOOLEAN :
            /\ present => add_torrent_response = None
            /\ LET o1 == [Asked(orch, "add_torrent", <<"is_paused">>,
                                 add_torrent_response)
                              EXCEPT !.already_present = present]
               IN  orch' = AfterAddTorrent(o1, add_torrent_response)
       \/ orch' = OrchRaise(orch)
    /\ UNCHANGED orchFrame

\* A variant in which no index is out of range.
IndexInRange_Always(ntok, index) == TRUE

\* Python's list indexing: numbers[index] raises IndexError out of range and
\* counts a negative index from the end
IndexInRange(ntok, index) ==
    IF index >= 0 THEN index < ntok ELSE -index <= ntok

\* what the operator may type at the episode prompt: an order number
PromptInputs == {0, 1, 2}

\* process_torrent(), lines 84-118: the Title fields a new title receives
PromptEpisode(o, files, episode_order) ==
    LET o1 == [o EXCEPT !.title.guid = "t2"]
    IN  IF o.title.episode_index # -1
        THEN o1
        ELSE IF IndexInRange(files[1].ntok, episode_order - 1)
             THEN [o1 EXCEPT !.title.episode_index = episode_order - 1]
             ELSE OrchRaise(o1)

\* process_torrent(), lines 45-82
GotFiles(o, files, episode_order) ==
    LET o1 == [o EXCEPT !.title.hash = o.add_torrent_response,
                        !.files = files, !.i = 1, !.pc = "rename_files"]
    IN  IF o.new THEN PromptEpisode(o1, files, episode_order) ELSE o1

ProcessGetInfo ==
    /\ orch.pc = "get_info"
    /\ LET o1 == IF orch.client = "qbittorrent"
                 THEN [orch EXCEPT !.title.hash = orch.add_torrent_response]
                 ELSE orch
       IN  \/ \E files \in FileLists, episode_order \in PromptInputs :
                orch' = GotFiles(orch, files, episode_order)
           \/ /\ orch.client = "qbittorrent"
              /\ orch' = ProcessFail(o1, "Failed to get torrent info after adding")
           \/ orch' = OrchRaise(o1)
    /\ UNCHANGED orchFrame

\* process_torrent(), lines 123-159: one iteration of the loop over the files
AfterFile(o) ==
    IF o.i = Len(o.files)
    THEN [o EXCEPT !.pc = "rename_folder"]
    ELSE [o EXCEPT !.i = o.i + 1]

ProcessRenameFile ==
    /\ orch.pc = "rename_files"
    /\ LET file == orch.files[orch.i]
       IN  IF ~IndexInRange(file.ntok, orch.title.episode_index)
           THEN orch' = OrchRaise(orch)
           ELSE IF orch.title.is_partial_season /\ file.same
                THEN orch' = AfterFile(orch)
                ELSE \/ \E renamed \in BOOLEAN :
                            orch' = AfterFile(Asked(orch, "rename_file",
                                                    <<orch.title.hash, orch.i>>,
                                                    renamed))
                     \/ orch' = OrchRaise(orch)
    /\ UNCHANGED orchFrame

\* process_torrent(), lines 161-181
ProcessRenameFolder ==
    /\ orch.pc = "rename_folder"
    /\ \/ \E renamed \in BOOLEAN :
            orch' = [Asked(orch, "rename_folder",
                           <<orch.title.hash, "current", "final">>, renamed)
                         EXCEPT !.pc = "rename_torrent"]
       \/ orch' = OrchRaise(orch)
    /\ UNCHANGED orchFrame

\* process_torrent(), line 182
ProcessRenameTorrent ==
    /\ orch.pc = "rename_torrent"
    /\ \/ \E renamed \in BOOLEAN :
            orch' = [Asked(orch, "rename_torrent", <<orch.title.hash, "final">>,
                           renamed)
                         EXCEPT !.pc = "start"]
       \/ orch' = OrchRaise(orch)
    /\ UNCHANGED orchFrame

\* what recheck_and_resume_async returns: (success, message)
RecheckResults ==
    {<<TRUE, "Recheck already in progress (monitored)">>,
     <<TRUE, "Torrent already active">>,
     <<TRUE, "monitoring in background">>,
     <<FALSE, "Torrent not found">>,
     <<FALSE, "Failed to start recheck">>,
     <<FALSE, "Torrent in error state">>}

\* process_torrent(), line 210
RecheckFailed_Never(success) == FALSE

RecheckFailed(success) == ~success

\* process_torrent(), lines 184-215: the qbittorrent variant
StartQbittorrent_IgnoreResult(o) ==
    IF o.new
    THEN {[Asked(o, "resume_torrent", <<o.title.hash>>, success)
              EXCEPT !.pc = "persist"] : success \in BOOLEAN}
    ELSE {[Log(Asked(o, "recheck_and_resume_async", <<o.title.hash>>, r[1]), r[2])
              EXCEPT !.pc = "persist"] : r \in RecheckResults}

StartQbittorrent(o) ==
    IF o.new
    THEN {LET o1 == Asked(o, "resume_torrent", <<o.title.hash>>, success)
          IN  IF ~success
              THEN ProcessFail(o1, "Failed to start torrent")
              ELSE [o1 EXCEPT !.pc = "persist"] : success \in BOOLEAN}
    ELSE {LET o1 == Log(Asked(o, "recheck_and_resume_async",
                              <<o.title.hash>>, r[1]), r[2])
          IN  IF RecheckFailed(r[1])
              THEN ProcessFail(o1, "Failed to start recheck for torrent")
              ELSE [o1 EXCEPT !.pc = "persist"] : r \in RecheckResults}

\* process_torrent(), lines 216-221: the transmission variant
StartTransmission(o) ==
    IF o.new
    THEN [Asked(o, "resume_torrent", <<o.title.hash>>, None)
              EXCEPT !.pc = "persist"]
    ELSE [Asked(Asked(o, "recheck_torrent", <<o.title.hash>>, None),
                "resume_torrent", <<o.title.hash>>, None)
              EXCEPT !.pc = "persist"]

ProcessStart ==
    /\ orch.pc = "start"
    /\ \/ /\ orch.client = "qbittorrent"
          /\ orch' \in StartQbittorrent(orch)
       \/ /\ orch.client # "qbittorrent"
          /\ orch' = StartTransmission(orch)
       \/ orch' = OrchRaise(orch)
    /\ UNCHANGED orchFrame

\* A variant that persists and returns without setting the response code.
Persisted_CodeNotSet(o) == ProcessReturn([o EXCEPT !.persisted = @ + 1])

\* update_config(titleConfig, title.code_name); response_code = SUCCESS; return
Persisted(o) ==
    ProcessReturn([o EXCEPT !.persisted = @ + 1, !.response_code = "SUCCESS"])

\* process_torrent(), lines 223-227
ProcessPersist ==
    /\ orch.pc = "persist"
    /\ \/ orch' = Persisted(orch)
       \/ orch' = OrchRaise(orch)
    /\ UNCHANGED orchFrame

\* add(), lines 283-285
AddEndSession ==
    /\ orch.pc = "end_session"
    /\ \/ orch' = [orch EXCEPT !.end_sessions = @ + 1, !.pc = "done"]
       \/ orch' = OrchRaise([orch EXCEPT !.end_sessions = @ + 1])
    /\ UNCHANGED orchFrame

InitOrchSpec ==
    /\ remote = [h \in Hashes |-> Absent]
    /\ InitBgOnly
    /\ InitClient
    /\ InitOrch
    /\ Unused(FALSE, TRUE, TRUE)

NextOrch ==
    \/ UpdateEnter
    \/ UpdateGetTorrent
    \/ UpdateRenameBase
    \/ UpdateDelete
    \/ AddEnter
    \/ ProcessDownload
    \/ ProcessAddTorrent
    \/ ProcessGetInfo
    \/ ProcessRenameFile
    \/ ProcessRenameFolder
    \/ ProcessRenameTorrent
    \/ ProcessStart
    \/ ProcessPersist
    \/ AddEndSession

SpecOrch == InitOrchSpec /\ [][NextOrch]_vars


(***************************************************************************)
(* Claims about update() and process_torrent(), under SpecOrch.            *)
(***************************************************************************)
Logged(message) ==
    \E k \in DOMAIN orch.operation_logs : orch.operation_logs[k] = message

CallIndexes(name) ==
    {k \in DOMAIN orch.client_calls : orch.client_calls[k].name = name}

SameDate ==
    /\ orch.op = "update" /\ orch.compared
    /\ orch.title0.publish_date = orch.torrent_date

\* C7: an update of a Title whose stored publish_date equals the indexer's
\* date ends with SUCCESS and the log line "Update not required!"; it asks
\* nothing of the client, leaves every Title field as it was and persists
\* nothing.
C7_SameDateIsNoOp ==
    SameDate =>
        /\ orch.pc = "done"
        /\ orch.response_code = "SUCCESS"
        /\ orch.operation_logs = <<"Update not required!">>
        /\ orch.client_calls = <<>>
        /\ orch.title = orch.title0
        /\ orch.persisted = 0

C7_Witness ==
    /\ SameDate /\ orch.pc = "done"
    /\ orch.title0.publish_date = <<1, 2>>

\* C8 (as stated): with the force flag set, an update of a known title that
\* runs to its end has issued delete_torrent and, where the delete succeeded,
\* add_torrent after it, whatever the dates are.
C8_ForceDeletesAndAdds ==
    (orch.op = "update" /\ orch.force /\ orch.pc = "done" /\ ~IsNone(orch.title))
        => \E k \in CallIndexes("delete_torrent") :
              orch.client_calls[k].ret = TRUE
                  => \E j \in CallIndexes("add_torrent") : j > k

RecheckReportedFailure ==
    \E k \in CallIndexes("recheck_and_resume_async") :
        orch.client_calls[k].ret = FALSE

\* C9: when recheck_and_resume_async reports failure, the update (whose date
\* had changed) ends with FAILURE, its log holds "Failed to start recheck for
\* torrent", and nothing was persisted.
C9_RecheckFailureIsFailure ==
    RecheckReportedFailure =>
        /\ orch.op = "update" /\ orch.dateDiffers
        /\ orch.pc = "done"
        /\ orch.response_code = "FAILURE"
        /\ Logged("Failed to start recheck for torrent")
        /\ orch.persisted = 0

C9_Witness ==
    /\ RecheckReportedFailure /\ orch.pc = "done"
    /\ Logged("Torrent not found")

IsBaseRename(c) ==
    /\ c.name = "rename_folder"
    /\ c.args = <<orch.title0.hash, "current", "base">>

IsDelete(c) ==
    /\ c.name = "delete_torrent"
    /\ c.args = <<FALSE, orch.title0.hash>>

\* the order of update()'s requests, given whether the base rename comes first
UpdateOrder(renamesFirst) ==
    LET asked == orch.client_calls
    IN  orch.op = "update" =>
          /\ asked # <<>> => (orch.dateDiffers /\ ~orch.force)
          /\ \A k \in CallIndexes("delete_torrent") :
                /\ IsDelete(asked[k])
                /\ IF renamesFirst
                   THEN k = 2 /\ IsBaseRename(asked[1])
                   ELSE k = 1
          /\ \A j \in CallIndexes("add_torrent") :
                /\ j > 1
                /\ IsDelete(asked[j - 1])
                /\ asked[j - 1].ret = TRUE
          /\ \A k \in CallIndexes("delete_torrent") :
                asked[k].ret = FALSE =>
                    /\ k = Len(asked)
                    /\ orch.pc = "done"
                    /\ orch.response_code = "FAILURE"
                    /\ orch.persisted = 0

\* C10 (as stated): in an update with a changed date and force unset, a
\* partial-season title's folder is first renamed to the base form, then
\* delete_torrent(delete_files=false, hash) is issued, add_torrent comes only
\* after a delete that returned success, and a delete that returned false
\* ends the update with FAILURE and nothing further.
C10_UpdateOrder_Original ==
    UpdateOrder(~IsNone(orch.title0) /\ orch.title0.is_partial_season)

\* C10: the same order, where the rename to the base form is issued for a
\* partial-season title on the qbittorrent variant only; on the transmission
\* variant delete_torrent is the first request.
C10_UpdateOrder ==
    UpdateOrder(/\ ~IsNone(orch.title0)
                /\ orch.title0.is_partial_season
                /\ orch.client = "qbittorrent")

C10_Witness ==
    /\ orch.op = "update" /\ orch.client = "qbittorrent"
    /\ Len(orch.client_calls) >= 3
    /\ IsBaseRename(orch.client_calls[1])
    /\ IsDelete(orch.client_calls[2]) /\ orch.client_calls[2].ret = TRUE
    /\ orch.client_calls[3].name = "add_torrent"


\* C11: an add or update calls update_config at most once; when it has
\* returned, a call of update_config means the response code is SUCCESS, and
\* a FAILURE response means update_config was not called.
C11_PersistedOnlyOnSuccess ==
    /\ orch.persisted <= 1
    /\ orch.pc = "done" =>
          /\ orch.persisted = 1 => orch.response_code = "SUCCESS"
          /\ orch.response_code = "FAILURE" => orch.persisted = 0

C11_Witness ==
    /\ orch.pc = "done" /\ orch.op = "update"
    /\ orch.persisted = 1 /\ orch.response_code = "SUCCESS"

AddReturnedNone ==
    \E k \in CallIndexes("add_torrent") : orch.client_calls[k].ret = None

AddReturnedId ==
    \E k \in CallIndexes("add_torrent") : orch.client_calls[k].ret # None

\* C12: Title.hash and Title.guid change only after add_torrent has returned
\* an identifier; when add_torrent returned null the workflow ends with hash
\* and guid as they were on entry.
C12_HashGuidOnlyAfterAdd ==
    ~IsNone(orch.title) =>
        /\ (orch.title.hash # orch.title0.hash \/ orch.title.guid # orch.title0.guid)
              => AddReturnedId
        /\ AddReturnedNone =>
              /\ orch.pc \in {"done", "end_session", "raised"}
              /\ orch.title.hash = orch.title0.hash
              /\ orch.title.guid = orch.title0.guid

C12_Witness ==
    /\ AddReturnedNone /\ orch.pc = "done"
    /\ orch.op = "update" /\ orch.title.hash = "oldhash"


(***************************************************************************)
(* Names.  A string is the sequence of its characters; the operators below *)
(* are Python's str methods and the helpers of utils/general.py that       *)
(* process_torrent uses.                                                   *)
(***************************************************************************)
Digits == {"0", "1", "2", "3", "4", "5", "6", "7", "8", "9"}

DigitOf(n) ==
    CASE n = 0 -> "0" [] n = 1 -> "1" [] n = 2 -> "2" [] n = 3 -> "3"
      [] n = 4 -> "4" [] n = 5 -> "5" [] n = 6 -> "6" [] n = 7 -> "7"
      [] n = 8 -> "8" [] n = 9 -> "9"

ValueOf(c) == CHOOSE n \in 0..9 : DigitOf(n) = c

StartsWith(s, prefix) ==
    Len(prefix) <= Len(s) /\ SubSeq(s, 1, Len(prefix)) = prefix

\* s.replace(old, new), old not empty: leftmost matches, not overlapping
RECURSIVE Replace(_, _, _)
Replace(s, old, new) ==
    IF s = <<>> THEN <<>>
    ELSE IF StartsWith(s, old)
         THEN new \o Replace(SubSeq(s, Len(old) + 1, Len(s)), old, new)
         ELSE <<Head(s)>> \o Replace(Tail(s), old, new)

\* s.split(sep) for a one-character sep
RECURSIVE Split(_, _)
Split(s, sep) ==
    IF \A k \in DOMAIN s : s[k] # sep THEN <<s>>
    ELSE LET k == CHOOSE j \in DOMAIN s :
                      s[j] = sep /\ \A m \in 1..(j - 1) : s[m] # sep
         IN  <<SubSeq(s, 1, k - 1)>> \o Split(SubSeq(s, k + 1, Len(s)), sep)

\* sep.join(parts)
RECURSIVE Join(_, _)
Join(parts, sep) ==
    IF parts = <<>> THEN <<>>
    ELSE IF Len(parts) = 1 THEN parts[1]
    ELSE parts[1] \o <<sep>> \o Join(Tail(parts), sep)

Last(seq) == seq[Len(seq)]

\* int(s) for a string of digits with an optional sign
RECURSIVE IntOfDigits(_)
IntOfDigits(s) ==
    IF s = <<>> THEN 0
    ELSE 10 * IntOfDigits(SubSeq(s, 1, Len(s) - 1)) + ValueOf(Last(s))

int(s) == IF Head(s) = "-" THEN 0 - IntOfDigits(Tail(s)) ELSE IntOfDigits(s)

\* str(n)
RECURSIVE StrOfNat(_)
StrOfNat(n) ==
    IF n < 10 THEN <<DigitOf(n)>>
    ELSE StrOfNat(n \div 10) \o <<DigitOf(n % 10)>>

str(n) == IF n < 0 THEN <<"-">> \o StrOfNat(0 - n) ELSE StrOfNat(n)

Zeros(n) == [k \in 1..n |-> "0"]

\* s.zfill(width): zeros after the sign, if there is one
zfill(s, width) ==
    IF Len(s) >= width THEN s
    ELSE IF s # <<>> /\ Head(s) \in {"+", "-"}
         THEN <<Head(s)>> \o Zeros(width - Len(s)) \o Tail(s)
         ELSE Zeros(width - Len(s)) \o s

\* get_numbers(name): every maximal run of digits, in order
RECURSIVE get_numbers(_)
get_numbers(s) ==
    IF s = <<>> THEN <<>>
    ELSE IF Head(s) \notin Digits THEN get_numbers(Tail(s))
    ELSE LET n == CHOOSE j \in 1..Len(s) :
                      /\ \A m \in 1..j : s[m] \in Digits
                      /\ j = Len(s) \/ s[j + 1] \notin Digits
         IN  <<SubSeq(s, 1, n)>> \o get_numbers(SubSeq(s, n + 1, Len(s)))

\* replace_second_part_in_path(path, new): the second segment replaced, a
\* path of one segment returned as it is
replace_second_part_in_path(path, new) ==
    LET parts == Split(path, "/")
    IN  IF Len(parts) > 1
        THEN Join([parts EXCEPT ![2] = new], "/")
        ELSE path

\* get_folder_name_from_path(path): the top folder, "" for a bare file name
get_folder_name_from_path(path) ==
    LET parts == Split(path, "/")
    IN  IF Len(parts) > 1 THEN parts[1] ELSE <<>>


(***************************************************************************)
(* SpecNaming: lines 120-182 of process_torrent over concrete names, the   *)
(* remote client applying each rename it is asked for.                     *)
(***************************************************************************)
NameMyShow == <<"M", "y", " ", "S", "h", "o", "w">>
NameDoubleSpace == <<"A", " ", " ", "B">>
FileE01 == <<"M", "y", " ", "S", "h", "o", "w", " ", "S", "0", "1", "/", "M", "y", " ", "S", "h", "o", "w", " ", "S", "0", "1", "E", "0", "1", ".", "m", "k", "v">>
FileE02Named == <<"M", "y", " ", "S", "h", "o", "w", " ", "S", "0", "1", "/", "M", "y", " ", "S", "h", "o", "w", " ", "S", "0", "1", "E", "0", "2", " ", "W", "E", "B", "-", "R", "G", ".", "m", "k", "v">>
FileEp9 == <<"D", "/", "e", "p", " ", "9", ".", "m", "k", "v">>
FileBare == <<"e", "0", "3", ".", "m", "k", "v">>

NamingTitles ==
    [torrent_name : {NameMyShow, NameDoubleSpace},
     season_number : {<<"0", "1">>},
     meta : {<<"W", "E", "B">>, <<>>},
     release_group : {<<"R", "G">>},
     episode_index : {-1, 0, 2},
     adjusted_episode_number : {-1, 0, 1},
     is_partial_season : BOOLEAN]

FileNames == {FileE01, FileE02Named, FileEp9, FileBare}

\* the file lists a torrent can have: distinct names
NamedFileLists ==
    {l \in UNION {[1..n -> FileNames] : n \in 1..MaxFiles} :
        \A j, k \in DOMAIN l : j # k => l[j] # l[k]}

NamingFrame(title, dot, client, files) ==
    [pc |-> "files", title |-> title,
     enable_dot_spacing_in_file_name |-> dot, client |-> client,
     get_filelist |-> files, remote_files |-> files,
     i |-> 1, episodes |-> <<>>, episode_range |-> <<>>,
     calls |-> <<>>, run |-> 1]

InitNaming ==
    \E title \in NamingTitles, dot \in BOOLEAN, client \in ClientVariants,
       files \in NamedFileLists :
        nm = NamingFrame(title, dot, client, files)

\* seq[index] as Python indexes a list
PyIndex(seq, index) ==
    IF index >= 0 THEN seq[index + 1] ELSE seq[Len(seq) + index + 1]

\* A variant that does not pad.
calculated_episode_NoPad(source_episode, adjusted_episode_number) ==
    str(int(source_episode) + adjusted_episode_number)

\* lines 127-129: str(int(source_episode) + adjusted).zfill(len(source_episode))
calculated_episode(source_episode, adjusted_episode_number) ==
    zfill(str(int(source_episode) + adjusted_episode_number), Len(source_episode))

\* .replace("  ", ".").replace(" ", ".")
DotSpacing(name) == Replace(Replace(name, <<" ", " ">>, <<".">>), <<" ">>, <<".">>)

\* A variant of the dot style that leaves the spaces in.
new_name_NoDotSpacing(title, dot, ext_name, episode) ==
    IF dot
    THEN title.torrent_name \o <<".", "S">> \o title.season_number
             \o <<"E">> \o episode \o <<".">> \o title.meta
             \o title.release_group \o <<".">> \o ext_name
    ELSE title.torrent_name \o <<" ", "S">> \o title.season_number
             \o <<"E">> \o episode \o <<" ">> \o title.meta \o <<"-">>
             \o title.release_group \o <<".">> \o ext_name

\* lines 132-139
new_name(title, dot, ext_name, episode) ==
    IF dot
    THEN DotSpacing(title.torrent_name \o <<".", "S">> \o title.season_number
                        \o <<"E">> \o episode \o <<".">> \o title.meta
                        \o title.release_group \o <<".">> \o ext_name)
    ELSE title.torrent_name \o <<" ", "S">> \o title.season_number
             \o <<"E">> \o episode \o <<" ">> \o title.meta \o <<"-">>
             \o title.release_group \o <<".">> \o ext_name

\* lines 141-144
new_path(client, file_name, name) ==
    IF client = "qbittorrent"
    THEN replace_second_part_in_path(file_name, name)
    ELSE name

\* lines 150-151: the part after the last "/"
BaseName(path) == Last(Split(path, "/"))

RECURSIVE min(_)
min(seq) ==
    IF Len(seq) = 1 THEN seq[1]
    ELSE LET m == min(Tail(seq)) IN IF seq[1] <= m THEN seq[1] ELSE m

RECURSIVE max(_)
max(seq) ==
    IF Len(seq) = 1 THEN seq[1]
    ELSE LET m == max(Tail(seq)) IN IF seq[1] >= m THEN seq[1] ELSE m

\* A variant that takes the range from the first and the last file.
folderName_FirstLast(title, dot, episode_range) ==
    LET min_ep == episode_range[1]
        max_ep == Last(episode_range)
        head == title.torrent_name \o <<" ", "S">> \o title.season_number
        tail == <<" ">> \o title.meta \o <<"[">> \o title.release_group \o <<"]">>
        name == IF title.is_partial_season
                THEN IF min_ep = max_ep
                     THEN head \o <<"E">> \o zfill(str(min_ep), 2) \o tail
                     ELSE head \o <<"E">> \o zfill(str(min_ep), 2) \o <<"-", "E">>
                              \o zfill(str(max_ep), 2) \o tail
                ELSE head \o tail
    IN  IF dot THEN DotSpacing(name) ELSE name

\* lines 161-176
folderName(title, dot, episode_range) ==
    LET min_ep == min(episode_range)
        max_ep == max(episode_range)
        head == title.torrent_name \o <<" ", "S">> \o title.season_number
        tail == <<" ">> \o title.meta \o <<"[">> \o title.release_group \o <<"]">>
        name == IF title.is_partial_season
                THEN IF min_ep = max_ep
                     THEN head \o <<"E">> \o zfill(str(min_ep), 2) \o tail
                     ELSE head \o <<"E">> \o zfill(str(min_ep), 2) \o <<"-", "E">>
                              \o zfill(str(max_ep), 2) \o tail
                ELSE head \o tail
    IN  IF dot THEN DotSpacing(name) ELSE name


\* what the remote client does with torrents_rename_file
RemoteRenameFile(files, old_path, path) ==
    [k \in DOMAIN files |-> IF files[k] = old_path THEN path ELSE files[k]]

\* what the remote client does with torrents_rename_folder
RemoteRenameFolder(files, old_path, path) ==
    [k \in DOMAIN files |->
        LET parts == Split(files[k], "/")
        IN  IF Len(parts) > 1 /\ parts[1] = old_path
            THEN Join([parts EXCEPT ![1] = path], "/")
            ELSE files[k]]

NamingCall(n, name, old_path, path) ==
    [name |-> name, old_path |-> old_path, new_path |-> path, run |-> n.run]

\* lines 123-159: one iteration of the loop over the files
RenameFileStep(n) ==
    LET file == n.get_filelist[n.i]
        numbers == get_numbers(file)
        ext_name == Last(Split(file, "."))
        source_episode == PyIndex(numbers, n.title.episode_index)
        episode == calculated_episode(source_episode,
                                      n.title.adjusted_episode_number)
        path == new_path(n.client, file,
                         new_name(n.title, n.enable_dot_spacing_in_file_name,
                                  ext_name, episode))
        skip == n.title.is_partial_season /\ BaseName(file) = BaseName(path)
        n1 == [n EXCEPT !.episode_range = Append(@, int(episode)),
                        !.episodes = Append(@, [source |-> source_episode,
                                                calculated |-> episode]),
                        !.i = @ + 1,
                        !.pc = IF n.i = Len(n.get_filelist) THEN "folder" ELSE "files"]
    IN  IF ~IndexInRange(Len(numbers), n.title.episode_index)
        THEN [n EXCEPT !.pc = "raised"]
        ELSE IF skip THEN n1
        ELSE [n1 EXCEPT !.calls = Append(@, NamingCall(n, "rename_file", file, path)),
                        !.remote_files = RemoteRenameFile(@, file, path)]

namingFrame == <<remote, bgVars, clVars, orch, rt>>

NamingRenameFile ==
    /\ nm.pc = "files"
    /\ nm' = RenameFileStep(nm)
    /\ UNCHANGED namingFrame

\* lines 161-181
NamingRenameFolder ==
    /\ nm.pc = "folder"
    /\ LET old_path == get_folder_name_from_path(nm.get_filelist[1])
           name == folderName(nm.title, nm.enable_dot_spacing_in_file_name,
                              nm.episode_range)
       IN  nm' = [nm EXCEPT
                    !.calls = Append(@, NamingCall(nm, "rename_folder", old_path, name)),
                    !.remote_files = RemoteRenameFolder(@, old_path, name),
                    !.pc = "torrent"]
    /\ UNCHANGED namingFrame

\* line 182
NamingRenameTorrent ==
    /\ nm.pc = "torrent"
    /\ LET name == folderName(nm.title, nm.enable_dot_spacing_in_file_name,
                              nm.episode_range)
       IN  nm' = [nm EXCEPT
                    !.calls = Append(@, NamingCall(nm, "rename_torrent", <<>>, name)),
                    !.pc = "end"]
    /\ UNCHANGED namingFrame

\* process_torrent runs once more, over the file list as the client now has it
NamingRerun ==
    /\ nm.pc = "end" /\ nm.run = 1 /\ nm.client = "qbittorrent"
    /\ nm' = [nm EXCEPT !.get_filelist = nm.remote_files, !.i = 1,
                        !.episodes = <<>>, !.episode_range = <<>>,
                        !.run = 2, !.pc = "files"]
    /\ UNCHANGED namingFrame

InitNamingSpec ==
    /\ remote = [h \in Hashes |-> Absent]
    /\ InitBgOnly
    /\ InitClient
    /\ InitNaming
    /\ Unused(TRUE, FALSE, TRUE)

NextNaming ==
    \/ NamingRenameFile
    \/ NamingRenameFolder
    \/ NamingRenameTorrent
    \/ NamingRerun

SpecNaming == InitNamingSpec /\ [][NextNaming]_vars


(***************************************************************************)
(* Claims about the names, under SpecNaming.                               *)
(***************************************************************************)
NoSpace(s) == \A k \in DOMAIN s : s[k] # " "

SpacesToDots(s) == [k \in DOMAIN s |-> IF s[k] = " " THEN "." ELSE s[k]]

RECURSIVE CollapseDots(_)
CollapseDots(s) ==
    IF Len(s) < 2 THEN s
    ELSE IF s[1] = "." /\ s[2] = "." THEN CollapseDots(Tail(s))
    ELSE <<s[1]>> \o CollapseDots(Tail(s))

\* actual is template with its spaces replaced by dots
DottedAs(actual, template) ==
    /\ NoSpace(actual)
    /\ CollapseDots(actual) = CollapseDots(SpacesToDots(template))

DotFileTemplate(title, episode, ext_name) ==
    title.torrent_name \o <<".", "S">> \o title.season_number \o <<"E">>
        \o episode \o <<".">> \o title.meta \o title.release_group
        \o <<".">> \o ext_name

FullSeasonTemplate(title) ==
    title.torrent_name \o <<" ", "S">> \o title.season_number \o <<" ">>
        \o title.meta \o <<"[">> \o title.release_group \o <<"]">>

NamingCalls(name, run) ==
    {k \in DOMAIN nm.calls : nm.calls[k].name = name /\ nm.calls[k].run = run}

\* the dot-style names of one run of the renaming on the qbittorrent variant
DotStyleNames ==
    /\ \A k \in 1..Len(nm.episodes) :
          LET file == nm.get_filelist[k]
              parts == Split(file, "/")
          IN  Len(parts) = 2 =>
                \E c \in NamingCalls("rename_file", 1) :
                    LET renamed == Split(nm.calls[c].new_path, "/")
                    IN  /\ nm.calls[c].old_path = file
                        /\ Len(renamed) = 2
                        /\ renamed[1] = parts[1]
                        /\ DottedAs(renamed[2],
                                    DotFileTemplate(nm.title, nm.episodes[k].calculated,
                                                    Last(Split(file, "."))))
    /\ nm.pc \in {"torrent", "end"} =>
          \E c \in NamingCalls("rename_folder", 1) :
              DottedAs(nm.calls[c].new_path, FullSeasonTemplate(nm.title))
    /\ nm.pc = "end" =>
          \E c \in NamingCalls("rename_torrent", 1) :
              DottedAs(nm.calls[c].new_path, FullSeasonTemplate(nm.title))

DotStyleAdd ==
    /\ nm.enable_dot_spacing_in_file_name /\ nm.client = "qbittorrent"
    /\ nm.run = 1 /\ nm.pc # "raised"

Larger(a, b) == IF a >= b THEN a ELSE b

\* C14: for every file the computed episode is the value of the token at
\* episode_index plus adjusted_episode_number, written with leading zeros to
\* the token's width, wider only when the value needs more characters.
C14_EpisodeArithmetic ==
    \A k \in DOMAIN nm.episodes :
        LET e == nm.episodes[k]
            value == int(e.source) + nm.title.adjusted_episode_number
        IN  /\ e.source = PyIndex(get_numbers(nm.get_filelist[k]),
                                  nm.title.episode_index)
            /\ int(e.calculated) = value
            /\ nm.episode_range[k] = value
            /\ Len(e.calculated) = Larger(Len(e.source), Len(str(value)))
            /\ value >= 0 =>
                  e.calculated = Zeros(Len(e.calculated) - Len(str(value))) \o str(value)

C14_Witness ==
    /\ \E k \in DOMAIN nm.episodes :
          nm.episodes[k] = [source |-> <<"9">>, calculated |-> <<"1", "0">>]
    /\ \E k \in DOMAIN nm.episodes :
          nm.episodes[k] = [source |-> <<"0", "2">>, calculated |-> <<"0", "3">>]

EpisodeNumbers == {nm.episode_range[k] : k \in DOMAIN nm.episode_range}

Smallest(S) == CHOOSE x \in S : \A y \in S : x <= y

Largest(S) == CHOOSE x \in S : \A y \in S : x >= y

EpisodePart ==
    IF ~nm.title.is_partial_season THEN <<>>
    ELSE IF Smallest(EpisodeNumbers) = Largest(EpisodeNumbers)
         THEN <<"E">> \o zfill(str(Smallest(EpisodeNumbers)), 2)
         ELSE <<"E">> \o zfill(str(Smallest(EpisodeNumbers)), 2) \o <<"-", "E">>
                  \o zfill(str(Largest(EpisodeNumbers)), 2)

ExpectedFolderName ==
    LET name == nm.title.torrent_name \o <<" ", "S">> \o nm.title.season_number
                    \o EpisodePart \o <<" ">> \o nm.title.meta \o <<"[">>
                    \o nm.title.release_group \o <<"]">>
    IN  IF nm.enable_dot_spacing_in_file_name THEN DotSpacing(name) ELSE name

\* C15: the folder and the torrent are named with the episode range over all
\* computed episode numbers of the batch: 'E{min}' when the smallest equals
\* the largest, 'E{min}-E{max}' otherwise, whatever the order of the files;
\* with no episode part for a title that is not partial-season.
C15_FolderEpisodeRange ==
    /\ nm.pc \in {"torrent", "end"} =>
          \E c \in NamingCalls("rename_folder", nm.run) :
              nm.calls[c].new_path = ExpectedFolderName
    /\ nm.pc = "end" =>
          \E c \in NamingCalls("rename_torrent", nm.run) :
              nm.calls[c].new_path = ExpectedFolderName

C15_Witness ==
    /\ nm.pc = "end" /\ nm.run = 1 /\ nm.title.is_partial_season
    /\ nm.episode_range = <<2, 1>>
    /\ ~nm.enable_dot_spacing_in_file_name
    /\ nm.title.torrent_name = NameMyShow /\ nm.title.meta = <<>>
    /\ \E c \in NamingCalls("rename_folder", 1) :
          nm.calls[c].new_path = <<"M", "y", " ", "S", "h", "o", "w", " ", "S", "0", "1", "E", "0", "1", "-", "E", "0", "2", " ", "[", "R", "G", "]">>

\* C16 (as stated): in partial-season processing a file whose base name
\* already is its target base name gets no rename_file call, rename_folder and
\* rename_torrent are issued all the same, and a second run of the renaming
\* over the files the first run renamed issues no rename_file call.
C16_PartialRerunRenamesNothing ==
    nm.title.is_partial_season =>
        /\ \A c \in DOMAIN nm.calls :
              nm.calls[c].name = "rename_file" =>
                  BaseName(nm.calls[c].old_path) # BaseName(nm.calls[c].new_path)
        /\ nm.pc = "end" =>
              /\ NamingCalls("rename_folder", nm.run) # {}
              /\ NamingCalls("rename_torrent", nm.run) # {}
        /\ NamingCalls("rename_file", 2) = {}


(***************************************************************************)
(* SpecRetry: _retry_operation running rename_file or rename_folder        *)
(* against the remote client's file list.  A request reaches the remote    *)
(* client or not, and raises or not; a verification reads the list or      *)
(* raises.  Sleeping between attempts changes nothing here.                *)
(***************************************************************************)
max_attempts == 10

PathAX == <<"a", "/", "x">>
PathAY == <<"a", "/", "y">>
PathBX == <<"b", "/", "x">>
FolderA == <<"a">>
FolderB == <<"b">>

FilePaths == {PathAX, PathAY, PathBX}

FolderPaths == {FolderA, FolderB}

\* rename_folder's verify(): top_folder(path)
top_folder(path) == IF path = <<>> THEN <<>> ELSE Split(path, "/")[1]

\* rename_file's verify(): new_exists and not old_exists
VerifyRenameFile(files, old_path, path) ==
    (\E f \in files : f = path) /\ ~(\E f \in files : f = old_path)

\* rename_folder's verify(): new_exists and not old_exists, over top folders
VerifyRenameFolder(files, old_path, path) ==
    /\ \E f \in files : top_folder(f) = path
    /\ ~(\E f \in files : top_folder(f) = old_path)

\* resume_torrent's verify(): the torrent is found and its state is active
VerifyResume(state) == state # Absent /\ state \in active_states

Verification(r) ==
    IF r.kind = "rename_file"
    THEN VerifyRenameFile(r.files, r.old_path, r.new_path)
    ELSE IF r.kind = "rename_folder"
    THEN VerifyRenameFolder(r.files, r.old_path, r.new_path)
    ELSE VerifyResume(r.state)

\* the remote client carries out the request, where it can be carried out
RemoteRename(r) ==
    IF r.kind = "rename_file"
    THEN IF r.old_path \in r.files /\ r.new_path \notin r.files
         THEN (r.files \ {r.old_path}) \cup {r.new_path}
         ELSE r.files
    ELSE IF r.kind = "rename_folder"
    THEN {IF top_folder(f) = r.old_path /\ Len(Split(f, "/")) > 1
          THEN Join([Split(f, "/") EXCEPT ![1] = r.new_path], "/")
          ELSE f : f \in r.files}
    ELSE r.files

RetryFrame(kind, old_path, path, files, state) ==
    [pc |-> "operation", kind |-> kind, old_path |-> old_path, new_path |-> path,
     files |-> files, files0 |-> files, state |-> state, polled |-> {},
     attempt |-> 0,
     op_runs |-> 0, verified |-> 0, failed |-> 0, raises |-> 0,
     last |-> "none", took_effect |-> FALSE, result |-> "none", error |-> <<>>]

InitRetry ==
    \/ \E files \in (SUBSET FilePaths) \ {{}} :
          \/ \E old_path \in FilePaths, path \in FilePaths :
                rt = RetryFrame("rename_file", old_path, path, files, "pausedUP")
          \/ \E old_path \in FolderPaths, path \in FolderPaths :
                rt = RetryFrame("rename_folder", old_path, path, files, "pausedUP")
    \/ \E state \in RemoteStates :
          rt = RetryFrame("resume_torrent", <<>>, <<>>, {}, state)

\* A variant that raises at the first exception.
AfterException_RaiseAtOnce(r) ==
    [r EXCEPT !.raises = @ + 1, !.last = "raised",
              !.pc = "done", !.result = "raised",
              !.error = <<r.kind, max_attempts>>]

\* lines 354-365: except Exception as e
AfterException(r) ==
    LET r1 == [r EXCEPT !.raises = @ + 1, !.last = "raised"]
    IN  IF r.attempt < max_attempts - 1
        THEN [r1 EXCEPT !.attempt = @ + 1, !.pc = "operation"]
        ELSE [r1 EXCEPT !.pc = "done", !.result = "raised",
                        !.error = <<r.kind, max_attempts>>]

\* A variant that goes on to the next attempt after a verification that held.
AfterVerification_NoReturn(r, ok) ==
    LET r1 == IF ok THEN [r EXCEPT !.verified = @ + 1, !.last = "verified"]
              ELSE [r EXCEPT !.failed = @ + 1, !.last = "failed"]
    IN  IF r.attempt < max_attempts - 1
        THEN [r1 EXCEPT !.attempt = @ + 1, !.pc = "operation"]
        ELSE [r1 EXCEPT !.pc = "done", !.result = IF ok THEN "True" ELSE "False"]

\* lines 340-352: if verification_func(): return True ... return False
AfterVerification(r, ok) ==
    IF ok
    THEN [r EXCEPT !.verified = @ + 1, !.last = "verified",
                   !.pc = "done", !.result = "True"]
    ELSE LET r1 == [r EXCEPT !.failed = @ + 1, !.last = "failed"]
         IN  IF r.attempt < max_attempts - 1
             THEN [r1 EXCEPT !.attempt = @ + 1, !.pc = "operation"]
             ELSE [r1 EXCEPT !.pc = "done", !.result = "False"]

retryFrame == <<remote, bgVars, clVars, orch, nm>>

\* api_client.torrents_resume as the remote client carries it out: a torrent
\* it has goes to the status the client next reports for it
RemoteResume(state, resumed) == IF state = Absent THEN Absent ELSE resumed

\* lines 335-337: operation_func()
RetryOperation ==
    /\ rt.pc = "operation"
    /\ rt.attempt < max_attempts
    /\ \E reached \in BOOLEAN, raises \in BOOLEAN, resumed \in RemoteStates :
         LET r1 == [rt EXCEPT !.op_runs = @ + 1,
                              !.files = IF reached THEN RemoteRename(rt) ELSE @,
                              !.state = IF rt.kind = "resume_torrent" /\ reached
                                        THEN RemoteResume(rt.state, resumed) ELSE @,
                              !.took_effect = @ \/ (reached /\ RemoteRename(rt) # rt.files)]
         IN  rt' = IF raises THEN AfterException(r1)
                   ELSE [r1 EXCEPT !.pc = "verify"]
    /\ UNCHANGED retryFrame

\* lines 338-352: verification_func()
RetryVerify ==
    /\ rt.pc = "verify"
    /\ \E raises \in BOOLEAN :
         rt' = IF raises THEN AfterException(rt)
               ELSE AfterVerification(
                        [rt EXCEPT !.polled = IF rt.kind = "resume_torrent"
                                              THEN @ \cup {rt.state} ELSE @],
                        Verification(rt))
    /\ UNCHANGED retryFrame

InitRetrySpec ==
    /\ remote = [h \in Hashes |-> Absent]
    /\ InitBgOnly
    /\ InitClient
    /\ InitRetry
    /\ Unused(TRUE, TRUE, FALSE)

NextRetry ==
    \/ RetryOperation
    \/ RetryVerify

SpecRetry == InitRetrySpec /\ [][NextRetry]_vars


(***************************************************************************)
(* Claims settled under SpecRetry.                                         *)
(***************************************************************************)

\* C17: the retry executor runs the operation at most max_attempts times;
\* it returns True at the first attempt whose verification holds and runs
\* nothing after it; when the verification fails on every attempt it
\* returns False and raises nothing.
C17_RetryBounded ==
    /\ rt.op_runs <= max_attempts
    /\ rt.verified <= 1
    /\ rt.verified = 1 =>
          /\ rt.pc = "done"
          /\ rt.result = "True"
          /\ rt.op_runs = rt.attempt + 1
    /\ rt.result = "True" => rt.verified = 1
    /\ (rt.pc = "done" /\ rt.failed = max_attempts) => rt.result = "False"

C17_Witness ==
    /\ rt.pc = "done"
    /\ rt.result = "True"
    /\ rt.failed > 0
    /\ rt.op_runs < max_attempts

\* a call whose verification failed on every one of the max_attempts attempts
C17_WitnessAllFailed ==
    rt.pc = "done" /\ rt.failed = max_attempts /\ rt.result = "False"


\* C18: an exception raised by the operation or by the verification on an
\* attempt that is not the last is swallowed and another attempt follows;
\* the executor raises, with an error naming the operation and
\* max_attempts, exactly when the last permitted attempt raises; it
\* returns False when earlier attempts raised and the last one only failed
\* its verification.
C18_RaisesOnlyOnLastAttempt ==
    /\ (rt.last = "raised" /\ rt.op_runs < max_attempts) =>
          /\ rt.pc # "done"
          /\ rt.result = "none"
          /\ rt.pc = "operation" => rt.attempt = rt.op_runs
    /\ rt.pc = "done" =>
          /\ rt.result = "raised" <=> (rt.last = "raised" /\ rt.op_runs = max_attempts)
          /\ rt.result = "raised" => rt.error = <<rt.kind, max_attempts>>
          /\ rt.last = "failed" => rt.result = "False"
    /\ rt.result # "raised" => rt.error = <<>>

C18_Witness ==
    /\ rt.pc = "done"
    /\ rt.result = "False"
    /\ rt.raises > 0
    /\ rt.last = "failed"

\* a call whose last permitted attempt raised
C18_WitnessRaised ==
    rt.pc = "done" /\ rt.result = "raised" /\ rt.failed > 0


\* whether the remote list has the call's target path
TargetPresent(files, r) ==
    IF r.kind = "rename_file"
    THEN r.new_path \in files
    ELSE \E f \in files : top_folder(f) = r.new_path

\* the target path was in place before the call's last attempt: the rename
\* took effect on an earlier attempt, or old and new paths are equal and the
\* path was there when the call began
DuplicateApplication(r) ==
    /\ TargetPresent(r.files, r)
    /\ \/ r.took_effect /\ r.op_runs > 1
       \/ r.old_path = r.new_path /\ TargetPresent(r.files0, r)

\* C19: rename_file and rename_folder report success when the remote state
\* already has the target path, both when the rename took effect on an
\* earlier attempt and when old and new paths are equal.
C19_RenameToleratesDuplicate ==
    (rt.pc = "done" /\ DuplicateApplication(rt)) => rt.result = "True"

\* The second case alone, with no attempt raising: equal old and new paths
\* on a path that is there.
C19_EqualPathsSucceed ==
    (rt.pc = "done" /\ rt.old_path = rt.new_path /\ TargetPresent(rt.files0, rt)
        /\ rt.raises = 0) => rt.result = "True"


(***************************************************************************)
(* Claim settled under SpecClient: the state classes of TorrentState.      *)
(***************************************************************************)

\* the classes a status string belongs to
ClassesOf(status) ==
    {c \in {"ACTIVE", "CHECKING", "STOPPED", "ERROR"} :
        \/ c = "ACTIVE" /\ status \in active_states
        \/ c = "CHECKING" /\ status \in checking_states
        \/ c = "STOPPED" /\ status \in stopped_states
        \/ c = "ERROR" /\ status \in error_states}

\* C20: the four state classes ACTIVE, CHECKING, STOPPED and ERROR are
\* mutually exclusive: the status the remote client reports for a torrent
\* belongs to at most one of active_states, checking_states, stopped_states
\* and error_states.
C20_ClassesExclusive ==
    \A h \in Hashes : Cardinality(ClassesOf(remote[h])) <= 1


(***************************************************************************)
(* Claims settled under SpecBg: unrecognized statuses, instantaneous       *)
(* recheck.                                                                *)
(***************************************************************************)

\* the statuses the remote client reports that belong to no class
Unrecognized == {s \in Statuses : ClassesOf(s) = {}}

\* C21: a status string that belongs to none of the four state classes is
\* never classified as one of them: a background task that observes it while
\* waiting for the recheck or after a resume request reports neither
\* completion or success nor failure because of it, and keeps polling.
C21_UnrecognizedKeepsPolling ==
    \A i \in DOMAIN tasks, s \in Unrecognized :
        /\ tasks[i].pc = "poll" =>
              /\ PollOutcome(tasks[i], s, FALSE).pc = "loop"
              /\ ~PollOutcome(tasks[i], s, FALSE).completed
        /\ tasks[i].pc = "resume" =>
              /\ ResumeAttempt(tasks[i], s, FALSE).pc \in {"resume", "finalcheck"}
              /\ ResumeAttempt(tasks[i], s, FALSE).report = NoResult
        /\ tasks[i].pc = "finalcheck" =>
              FinalCheckOutcome(tasks[i], s, FALSE).report[1] # TRUE


\* C22: when after the recheck request the torrent is never observed in a
\* CHECKING state but is observed ACTIVE (instantaneous recheck), the call
\* returns success synchronously and registers no background task: a call
\* that goes on to register and submit a task is not such a call.
C22_InstantRecheckSpawnsNoTask ==
    \A c \in Callers :
        calls[c].pc \in {"register", "submit"} => ~calls[c].instant


(***************************************************************************)
(* Claims settled under SpecClient: add_torrent and delete_torrent.        *)
(***************************************************************************)

\* C23: add_torrent and delete_torrent go through the retry executor: when
\* the first attempt's post-condition is not observed or the attempt raises,
\* the operation is attempted again, so that a call which sent one request
\* and did not see its post-condition has not returned null or False or
\* raised after that single request.
C23_AddAndDeleteAreRetried ==
    /\ (del.pc = "done" /\ del.result \in {"False", "raised"}) => del.requests # 1
    /\ (ad.pc = "done" /\ (ad.visible = "no" \/ ad.result = "raised")) =>
          ad.requests # 1

\* C24: add_torrent returns the content-derived identifier only if a torrent
\* with that identifier is visible in the client after submission; if one is
\* present before submission it returns null and issues no add request; if
\* the identifier is not visible after submission or the client reports a
\* duplicate conflict it returns null.
C24_AddReturnsVisibleIdentifier ==
    /\ ad.result \notin {"none", ReturnedNone, "raised"} =>
          /\ ad.pc = "done"
          /\ ad.result = ad.hash
          /\ ad.visible = "yes"
          /\ ad.requests = 1
    /\ ad.sawPresent =>
          ad.pc = "done" /\ ad.result = ReturnedNone /\ ad.requests = 0
    /\ ad.visible = "no" => ad.pc = "done" /\ ad.result = ReturnedNone
    /\ ad.conflict => ad.pc = "done" /\ ad.result = ReturnedNone

C24_Witness ==
    /\ ad.pc = "done"
    /\ ad.result = ad.hash
    /\ ad.visible = "yes"
    /\ nadds = 1

\* a second call finds the torrent the first one added
C24_WitnessPresent ==
    ad.pc = "done" /\ ad.sawPresent /\ nadds = 2 /\ ad.result = ReturnedNone


(***************************************************************************)
(* Claim settled under SpecRetry: resume_torrent.                          *)
(***************************************************************************)

\* the statuses that are ACTIVE and nothing else: downloading, uploading,
\* stalled, forced, allocating, queued, meta-downloading
ActiveOnly == {s \in active_states : ClassesOf(s) = {"ACTIVE"}}

\* C25: resume_torrent returns True only if, at a verification poll, the
\* torrent exists and its state is in the ACTIVE class; a torrent that is
\* absent, stopped, in error or still in a CHECKING state at every poll
\* yields False.
C25_ResumeOnlyWhenActive ==
    (rt.kind = "resume_torrent" /\ rt.pc = "done") =>
        /\ rt.result = "True" => \E s \in rt.polled : s \in ActiveOnly
        /\ (/\ rt.last # "raised"
            /\ \A s \in rt.polled :
                  \/ s = Absent
                  \/ s \in stopped_states \cup error_states \cup checking_states)
           => rt.result = "False"


(***************************************************************************)
(* Claims settled under SpecOrch: failures of client operations, add of a  *)
(* torrent that is present, end of session, update on a changed date.      *)
(***************************************************************************)

\* the client operations whose boolean result says whether the
\* post-condition was observed (the transmission variant's resume_torrent
\* result is not a boolean here)
VerifiedOperations ==
    {"rename_file", "rename_folder", "rename_torrent", "delete_torrent"}
        \cup (IF orch.client = "qbittorrent" THEN {"resume_torrent"} ELSE {})

\* some call of the operation returned False
ReturnedFalse(name) ==
    \E k \in CallIndexes(name) : orch.client_calls[k].ret = FALSE

\* C26: whenever a client operation inside add or update returns False
\* because its post-condition was never observed (rename_file,
\* rename_folder, rename_torrent, resume_torrent, delete_torrent), the
\* workflow's result is FAILURE with a log entry and the Title is not
\* persisted.
C26_FalseMeansFailure ==
    (orch.pc = "done" /\ \E name \in VerifiedOperations : ReturnedFalse(name)) =>
        /\ orch.response_code = "FAILURE"
        /\ orch.operation_logs # <<>>
        /\ orch.persisted = 0


\* C27: an add of a torrent that is already present in the client is an
\* idempotent short-circuit that counts as success: the workflow whose
\* add_torrent call finds the torrent already present does not end with
\* response_code FAILURE.
C27_AddOfPresentIsNotFailure ==
    (orch.already_present /\ orch.pc = "done") => orch.response_code # "FAILURE"


\* C28: a terminal add ends the client session exactly once, after the add
\* path has returned, on both SUCCESS and FAILURE results; an add path
\* entered through update never ends the session.
C28_EndSessionOnceAfterAdd ==
    /\ orch.end_sessions <= 1
    /\ orch.op = "update" => orch.end_sessions = 0
    /\ (orch.op = "add" /\ orch.pc = "done") =>
          /\ orch.end_sessions = 1
          /\ orch.response_code \in {"SUCCESS", "FAILURE"}
    /\ orch.end_sessions = 1 =>
          /\ orch.pc \in {"done", "raised"}
          /\ orch.response_code \in {"SUCCESS", "FAILURE"}
    /\ orch.pc = "end_session" =>
          orch.op = "add" /\ orch.response_code \in {"SUCCESS", "FAILURE"}

C28_Witness ==
    /\ orch.op = "add"
    /\ orch.pc = "done"
    /\ orch.response_code = "FAILURE"
    /\ orch.end_sessions = 1

\* an update that went through the add path and persisted
C28_WitnessUpdate ==
    /\ orch.op = "update"
    /\ orch.pc = "done"
    /\ orch.persisted = 1
    /\ orch.end_sessions = 0


\* C29: update with a changed date renames the torrent's current top-level
\* folder to the base form before deleting the old torrent also when the
\* Title is not marked partial-season: the first rename_folder call is
\* (current folder, base form), followed by the delete.
C29_BaseRenameWithoutPartialFlag ==
    (/\ orch.op = "update" /\ orch.client = "qbittorrent"
     /\ ~IsNone(orch.title0) /\ ~orch.title0.is_partial_season
     /\ CallIndexes("delete_torrent") # {})
        => /\ IsBaseRename(orch.client_calls[1])
           /\ CallIndexes("delete_torrent") = {2}


\* C30: update with force unset issues the delete and re-add whenever the
\* stored publish_date is not equal to the indexer's current date, a stored
\* date that is empty or a proper substring of the current date included,
\* and treats the date as unchanged only when the two are equal.
C30_UnequalDatesAreChanged ==
    (/\ orch.op = "update" /\ ~orch.force /\ orch.compared /\ orch.pc = "done"
     /\ orch.title0.publish_date # orch.torrent_date)
        => /\ orch.dateDiffers
           /\ \E k \in CallIndexes("delete_torrent") :
                 orch.client_calls[k].ret = TRUE
                     => \E j \in CallIndexes("add_torrent") : j > k


(***************************************************************************)
(* Claims settled under SpecBg: what ends a background task, and the       *)
(* active-task map.                                                        *)
(***************************************************************************)

\* what a task that has seen the torrent gone must do next: report failure
\* and go to its finally clause, with no resume request
ReportsFailure(t) == t.pc = "finally" /\ t.report[1] = FALSE /\ t.resumes = 0

\* C31: when a background task sees the torrent leave CHECKING into an
\* ERROR state, or sees that the torrent has disappeared, it reports failure
\* to the callback and issues no resume request for it, on every path, the
\* final check made after the overall recheck ceiling has elapsed included.
C31_GoneOrErrorReportsFailure ==
    \A i \in DOMAIN tasks, s \in error_states \cup {Absent} :
        /\ tasks[i].pc = "poll" =>
              ReportsFailure(PostWait(PollOutcome(tasks[i], s, FALSE), FALSE))
        /\ tasks[i].pc = "final" =>
              ReportsFailure(PostWait(FinalOutcome(tasks[i], s), FALSE))

\* the part of C31 that is about the polls inside the monitoring loop
C31_InsideTheLoop ==
    \A i \in DOMAIN tasks, s \in error_states \cup {Absent} :
        tasks[i].pc = "poll" =>
            ReportsFailure(PostWait(PollOutcome(tasks[i], s, FALSE), FALSE))


\* C32: the background resume phase has its own bounded budget: it issues
\* at most 5 resume requests, stops at the first poll that finds the torrent
\* ACTIVE (success), in an ERROR state or missing (failure), and after the
\* budget is used up reports success exactly when the torrent exists in a
\* non-ERROR state, failure otherwise.
C32_ResumeBudget ==
    \A i \in DOMAIN tasks :
        LET t == tasks[i] IN
        /\ t.resumes <= max_attempts_bg
        /\ t.pc = "resume" =>
              /\ t.resumes = t.attempt /\ t.attempt < max_attempts_bg
              /\ \A s \in RemoteStates :
                    LET n == ResumeAttempt(t, s, FALSE) IN
                    /\ n.resumes = t.resumes + 1
                    /\ (s # Absent /\ s \in active_states) =>
                          n.pc = "finally" /\ n.report[1] = TRUE
                    /\ (s = Absent \/ (s \in error_states /\ s \notin active_states)) =>
                          n.pc = "finally" /\ n.report[1] = FALSE
                    /\ (s # Absent /\ s \notin active_states \cup error_states) =>
                          n.pc \in {"resume", "finalcheck"} /\ n.report = NoResult
        /\ t.pc = "finalcheck" =>
              /\ t.resumes = max_attempts_bg
              /\ \A s \in RemoteStates :
                    LET n == FinalCheckOutcome(t, s, FALSE) IN
                    /\ n.pc = "finally" /\ n.resumes = max_attempts_bg
                    /\ n.report[1] = (s # Absent /\ s \notin error_states)
        /\ (t.pc = "finally" /\ t.report[2] \in {"Exists in state", "Failed to resume"})
              => t.resumes = max_attempts_bg
        /\ (t.pc = "finally" /\ t.report[2] = "Active in state")
              => t.report[1] = TRUE /\ t.resumes >= 1

C32_Witness ==
    \E i \in DOMAIN tasks :
        /\ tasks[i].pc = "finally"
        /\ tasks[i].resumes = max_attempts_bg
        /\ tasks[i].report = <<TRUE, "Exists in state">>


\* the task leaves the monitoring loop in this step
LeavesLoop(i) ==
    /\ tasks[i].pc \in {"loop", "poll"}
    /\ tasks'[i].pc \notin {"loop", "poll"}

\* the reasons for which the monitoring loop may be left: the ceiling has
\* elapsed, the cancellation flag is set, the poll found the torrent gone or
\* out of CHECKING
LoopExitReason(i) ==
    \/ tasks[i].pc = "loop" /\ tasks[i].polls >= 1 /\ tasks'[i].pc = "final"
    \/ /\ tasks[i].pc = "loop" /\ tasks[i].ev \in events_set
       /\ tasks'[i].pc = "postwait" /\ ~tasks'[i].completed
    \/ /\ tasks[i].pc = "poll"
       /\ \E s \in RemoteStates \ checking_states, stalled \in BOOLEAN :
             tasks'[i] = PollOutcome(tasks[i], s, stalled)

\* the poll's query of the remote client raised
PollRaised(i) ==
    /\ tasks[i].pc = "poll"
    /\ \E cbRaises \in BOOLEAN : tasks'[i] = ExceptHandler(tasks[i], cbRaises)

\* while the torrent is in a CHECKING state a poll keeps the task in the
\* loop, stalled or not
StallKeepsPolling ==
    \A i \in DOMAIN tasks :
        tasks[i].pc = "poll" =>
            \A s \in checking_states, stalled \in BOOLEAN :
                PollOutcome(tasks[i], s, stalled).pc = "loop"

\* C33 (as stated): a progress stall alone never ends a background task:
\* while the torrent stays in a CHECKING state the task keeps polling, and it
\* leaves the monitoring loop only because the torrent left CHECKING, the
\* torrent disappeared, the cancellation flag was set, or the overall
\* recheck ceiling elapsed.
C33_StallNeverEnds_Original ==
    /\ []StallKeepsPolling
    /\ [][\A i \in DOMAIN tasks : LeavesLoop(i) => LoopExitReason(i)]_vars

\* C33: the same, a query of the remote client that raises being a fifth
\* reason for which the loop is left (the task then reports 'Background
\* error').
C33_StallNeverEnds ==
    /\ []StallKeepsPolling
    /\ [][\A i \in DOMAIN tasks :
            LeavesLoop(i) => (LoopExitReason(i) \/ PollRaised(i))]_vars

C33_Witness ==
    \E i \in DOMAIN tasks :
        /\ tasks[i].pc = "poll"
        /\ tasks[i].stall_warned
        /\ tasks[i].polls >= 1


(***************************************************************************)
(* Claims settled under SpecOrch: the order of the add path, what a failed *)
(* update leaves, an out-of-range episode index.                           *)
(***************************************************************************)

\* the files of the added torrent whose rename is not skipped
RenamedFiles ==
    {k \in DOMAIN orch.files :
        ~(orch.title.is_partial_season /\ orch.files[k].same)}

FinalFolderRenames ==
    {k \in CallIndexes("rename_folder") : orch.client_calls[k].args[3] = "final"}

StartCalls ==
    CallIndexes("resume_torrent") \cup CallIndexes("recheck_and_resume_async")
        \cup CallIndexes("recheck_torrent")

\* the names of the calls that start the torrent, in order, as the claim has
\* them and as each client variant has them
StartNamesStated ==
    IF orch.new THEN <<"resume_torrent">> ELSE <<"recheck_and_resume_async">>

StartNamesByVariant ==
    IF orch.client = "qbittorrent" THEN StartNamesStated
    ELSE IF orch.new THEN <<"resume_torrent">>
    ELSE <<"recheck_torrent", "resume_torrent">>

\* the order of the add path's requests, given the names of the start calls
AddPathOrder(startNames) ==
    LET asked == orch.client_calls
        adds == CallIndexes("add_torrent")
        first == CHOOSE k \in StartCalls : \A j \in StartCalls : k <= j
    IN  /\ Cardinality(adds) <= 1
        /\ \A a \in adds : asked[a].args = <<"is_paused">>
        /\ \A f \in CallIndexes("rename_file") :
              \E a \in adds : a < f /\ asked[a].ret # None
        /\ \A d \in FinalFolderRenames :
              /\ adds # {}
              /\ \A f \in CallIndexes("rename_file") : f < d
              /\ Cardinality(CallIndexes("rename_file")) = Cardinality(RenamedFiles)
        /\ \A t \in CallIndexes("rename_torrent") : t - 1 \in FinalFolderRenames
        /\ StartCalls # {} =>
              /\ first - 1 \in CallIndexes("rename_torrent")
              /\ \A k \in StartCalls :
                    /\ k - first + 1 <= Len(startNames)
                    /\ asked[k].name = startNames[k - first + 1]
        /\ orch.persisted = 1 =>
              /\ Cardinality(StartCalls) = Len(startNames)
              /\ orch.client = "qbittorrent" => asked[first].ret = TRUE

\* C34 (as stated): in the add path the torrent is submitted paused and the
\* calls are ordered: add_torrent, then every file rename, then
\* rename_folder, then rename_torrent, then resume_torrent (new) or
\* recheck_and_resume_async (re-add), then persisting the Title; no resume or
\* recheck is issued before all renames have been issued, and the Title is
\* persisted only after the resume or recheck start reported success.
C34_AddPathOrder_Original == AddPathOrder(StartNamesStated)

\* C34: the same order, where the start is resume_torrent (new) or
\* recheck_and_resume_async (re-add) with a success result on the
\* qbittorrent variant; on the transmission variant it is resume_torrent
\* (new) or recheck_torrent then resume_torrent (re-add), and the Title is
\* persisted after them whatever they returned.
C34_AddPathOrder == AddPathOrder(StartNamesByVariant)

C34_Witness ==
    /\ orch.op = "update" /\ orch.client = "qbittorrent"
    /\ orch.pc = "done" /\ orch.persisted = 1
    /\ Cardinality(CallIndexes("rename_file")) = 2
    /\ CallIndexes("recheck_and_resume_async") = {Len(orch.client_calls)}

\* the same on the transmission variant
C34_WitnessTransmission ==
    /\ orch.op = "update" /\ orch.client = "transmission"
    /\ orch.pc = "done" /\ orch.persisted = 1
    /\ CallIndexes("recheck_torrent") # {}


(***************************************************************************)
(* Claims settled under SpecBg: the returns of recheck_and_resume_async,   *)
(* the active-task map against the live tasks, cancellation, shutdown.     *)
(***************************************************************************)

FailedReturns ==
    {<<FALSE, "Torrent not found">>, <<FALSE, "Failed to start recheck">>,
     <<FALSE, "Torrent in error state">>}

Monitoring == <<TRUE, "monitoring in background">>

\* the step is a return of the call c (an exception that leaves the call is
\* the result Raised)
Returns(c) == calls[c].pc # "done" /\ calls'[c].pc = "done" /\ calls'[c].result # Raised

\* C35: every return of recheck_and_resume_async with started = False
\* (torrent not found, recheck request raised, ERROR state after the
\* quick-start wait) leaves the active-task map unchanged and submits no
\* task; the map is written only by a call on the path that returns
\* (True, 'monitoring in background'), the only return that follows it.
C35_FailedReturnsChangeNothing ==
    [][\A c \in Callers :
          /\ Returns(c) /\ ~calls'[c].result[1] =>
                /\ calls'[c].result \in FailedReturns
                /\ active_tasks' = active_tasks
                /\ tasks' = tasks
                /\ calls[c].pc # "submit" /\ calls'[c].submits = 0
          /\ calls'[c].pc = "submit" /\ calls[c].pc # "submit" =>
                /\ calls[c].pc = "register"
                /\ active_tasks' = DictSet(active_tasks, calls[c].hash, calls[c].ev)
          /\ active_tasks' # active_tasks /\ calls' # calls =>
                \E d \in Callers : calls[d].pc = "register" /\ calls'[d].pc = "submit"
          /\ Returns(c) /\ calls[c].pc = "submit" =>
                calls'[c].result = Monitoring /\ calls'[c].submits = 1]_vars

\* a call returned 'error state' while another call's registration stands
C35_Witness ==
    \E c, d \in Callers :
        /\ calls[c].pc = "done" /\ calls[c].result = <<FALSE, "Torrent in error state">>
        /\ calls[d].result = Monitoring
        /\ calls[c].hash \in DOMAIN active_tasks


\* a call has registered the identifier h and is about to submit its task
BeingSubmitted(h) == \E c \in Callers : calls[c].pc = "submit" /\ calls[c].hash = h

\* C36: at every moment the active-task map and the live background tasks
\* agree: an identifier is in the map only if a task for it is queued or
\* running (or is being submitted by the call that registered it), and every
\* queued or running task has its identifier in the map, with its own
\* cancellation flag.
C36_MapAgreesWithTasks ==
    /\ \A h \in DOMAIN active_tasks : LiveTasksOf(h) # {} \/ BeingSubmitted(h)
    /\ \A i \in DOMAIN tasks :
          LiveTask(i) /\ tasks[i].pc # "finally" =>
              /\ tasks[i].hash \in DOMAIN active_tasks
              /\ active_tasks[tasks[i].hash] = tasks[i].ev


\* cancel_background_recheck returned True for the task i: its flag is set
\* while it is queued or running, and no shutdown has set it
CancelledByCall(i) ==
    /\ LiveTask(i) /\ tasks[i].pc # "finally"
    /\ shut.pc = "idle"
    /\ tasks[i].ev \in events_set

\* C37: if cancel_background_recheck(id) returned True, the task for id
\* does not afterwards issue a resume request and does not report success:
\* whatever its next step observes, a cancelled task's count of resume
\* requests stays and its report is not a success.
C37_CancelledNeverResumes ==
    \A i \in DOMAIN tasks :
        CancelledByCall(i) =>
            /\ tasks[i].pc = "resume" =>
                  \A s \in Observations, cbRaises \in BOOLEAN :
                      /\ ResumeAttempt(tasks[i], s, cbRaises).resumes = tasks[i].resumes
                      /\ ~ResumeAttempt(tasks[i], s, cbRaises).report[1]
            /\ tasks[i].pc = "finalcheck" =>
                  \A s \in Observations, cbRaises \in BOOLEAN :
                      ~FinalCheckOutcome(tasks[i], s, cbRaises).report[1]

\* what does hold: cancelled before the resume phase, no resume request
C37_BeforeResumePhase ==
    \A i \in DOMAIN tasks :
        CancelledByCall(i) /\ tasks[i].flagBeforeResume => tasks[i].resumes = 0


ShutdownReturned == shut.pc = "done" /\ shut.wait

\* C38: shutdown(wait=True) sets the flag of every registered task and
\* returns only after all of them ended: when it has returned the map is
\* empty and every work item, those still queued included, has run to its
\* end (where its callback has been invoked).
C38_ShutdownLeavesNothing ==
    ShutdownReturned =>
        /\ DOMAIN active_tasks = {}
        /\ \A i \in DOMAIN tasks : tasks[i].pc = "done"

\* what does hold: every work item has run to its end, and every identifier
\* left in the map is one whose call found the executor shut down
C38_TasksEnded ==
    ShutdownReturned =>
        /\ \A i \in DOMAIN tasks : tasks[i].pc = "done"
        /\ \A h \in DOMAIN active_tasks :
              \E c \in Callers :
                  /\ calls[c].hash = h /\ active_tasks[h] = c
                  /\ calls[c].pc = "submit" \/ calls[c].result = Raised


(***************************************************************************)
(* Claims settled under SpecOrch, continued.                               *)
(***************************************************************************)

\* delete_torrent returned True for the stored hash: the torrent the Title
\* names has been removed from the client
OldTorrentDeleted ==
    \E k \in CallIndexes("delete_torrent") :
        /\ orch.client_calls[k].args = <<FALSE, orch.title0.hash>>
        /\ orch.client_calls[k].ret = TRUE

UpdateFailed ==
    /\ orch.op = "update" /\ orch.pc = "done"
    /\ orch.response_code = "FAILURE"

\* C39: a failed update does not lose the torrent: whenever update returns
\* FAILURE, the Title is as it was stored and the torrent its hash names,
\* present when update was called, has not been deleted.
C39_FailedUpdateKeepsTorrent ==
    UpdateFailed /\ ~IsNone(orch.title0) =>
        /\ orch.persisted = 0
        /\ ~OldTorrentDeleted

\* what does hold: the stored Title is not rewritten by a failed update
C39_FailedUpdatePersistsNothing == UpdateFailed => orch.persisted = 0


\* the files with fewer numeric tokens than episode_index + 1
ShortFiles ==
    {k \in DOMAIN orch.files : orch.files[k].ntok < orch.title.episode_index + 1}

FirstShortFile == CHOOSE k \in ShortFiles : \A j \in ShortFiles : k <= j

\* C40: file renaming is not all-or-nothing: if some file has fewer
\* numeric tokens than episode_index + 1, the workflow raises at that file
\* (unless a request raised before it), after the files before it were
\* renamed, and no folder rename, torrent rename, resume, recheck, persist
\* or end_session follows.
C40_RaisesAtShortFile ==
    ShortFiles # {} =>
        /\ orch.pc \in {"rename_files", "raised"}
        /\ orch.i <= FirstShortFile
        /\ orch.pc = "raised" /\ orch.i = FirstShortFile =>
              Cardinality(CallIndexes("rename_file"))
                  = Cardinality({k \in RenamedFiles : k < FirstShortFile})
        /\ FinalFolderRenames = {} /\ CallIndexes("rename_torrent") = {}
        /\ StartCalls = {}
        /\ orch.persisted = 0 /\ orch.end_sessions = 0

\* the second file is short: the first has been renamed, then the raise
C40_Witness ==
    /\ ShortFiles = {2}
    /\ orch.pc = "raised" /\ orch.i = 2
    /\ CallIndexes("rename_file") = {Len(orch.client_calls)}
    /\ orch.client_calls[Len(orch.client_calls)].ret = TRUE

====
